---- MODULE Spec2Model ----
(***************************************************************************)
(* Model of graphite-transitive-dependencies:                              *)
(*   buildHydratedDag          src/src/build_hydrated_dag.ts               *)
(*   computeTransitiveTargets  src/unnamed/part_002 (lines 298-355)        *)
(*   createHydratedDag         src/src/get_cached_targets.ts (136-154)     *)
(*                                                                         *)
(* Encoding of the JavaScript values:                                      *)
(*   Map<K,V>     a function whose DOMAIN is the key set                   *)
(*   Set<string>  a duplicate-free sequence in insertion order (the order  *)
(*                 in which a JS Set is iterated)                          *)
(*   T | undefined  a sequence of length 0 (undefined) or 1                *)
(*   template literal  the sequence of its parts                           *)
(*   Set<Target>  the sequence of the objects added: every object literal  *)
(*                 is a fresh reference, so no add is ever a duplicate     *)
(***************************************************************************)
EXTENDS Integers, Sequences, FiniteSets, TLC

VARIABLES
  pc,                     \* position of the running call
  baselineTargets,        \* argument of buildHydratedDag
  additionalTargets,      \* argument of buildHydratedDag
  cursor,                 \* <<snapshot index, node index>> of the running loop
  targetIdToName,         \* build_hydrated_dag.ts:29
  nameToTargetIds,        \* build_hydrated_dag.ts:30
  targetIdToDependentIds, \* build_hydrated_dag.ts:52
  error,                  \* the Error thrown, <<>> when none
  hydratedDag,            \* the HydratedDag returned / passed on, <<>> when none
  directPackageNames,     \* argument of computeTransitiveTargets
  packagesNotInDag,       \* part_002:308
  directTargetIds,        \* part_002:310
  resultTargetIds,        \* part_002:320
  toProcess,              \* part_002:321
  processed,              \* part_002:322
  targets,                \* part_002:342
  commitShas,             \* argument of getCachedTargetsForCommits
  kind,                   \* argument of getCachedTargetsForCommits
  batchSize,              \* argument of getCachedTargetsForCommits
  keyGenerator,           \* argument of getCachedTargetsForCommits
  chunkedInputs,          \* get_cached_targets.ts:7 and :93
  results,                \* get_cached_targets.ts:94
  chunkResults,           \* get_cached_targets.ts:97, the promises of the running batch
  storageCalls,           \* the calls of storageClient.getObjectOrNull so far
  targetMap,              \* get_cached_targets.ts:107
  failedShas,             \* get_cached_targets.ts:108
  thrown                  \* what getCachedTargetsForCommits threw, <<>> when nothing

vars == <<pc, baselineTargets, additionalTargets, cursor, targetIdToName,
          nameToTargetIds, targetIdToDependentIds, error,
          hydratedDag, directPackageNames, packagesNotInDag, directTargetIds,
          resultTargetIds, toProcess, processed, targets,
          commitShas, kind, batchSize, keyGenerator, chunkedInputs, results,
          chunkResults, storageCalls, targetMap, failedShas, thrown>>

hydrateVars == <<baselineTargets, additionalTargets, cursor, targetIdToName,
                 nameToTargetIds, targetIdToDependentIds, error>>

closureVars == <<directPackageNames, packagesNotInDag, directTargetIds,
                 resultTargetIds, toProcess, processed, targets>>

fetchVars == <<commitShas, kind, batchSize, keyGenerator, chunkedInputs, results,
               chunkResults, storageCalls, targetMap, failedShas, thrown>>

(***************************************************************************)
(* Bounds of the model.                                                    *)
(***************************************************************************)
MaxSize == 3         \* nodes and declared ids in all the snapshots of one call together
MaxAdditional == 2   \* length of additionalTargets
MaxSeeds == 2        \* length of directPackageNames
MaxDagSize == 5      \* packages and listed dependents of a createHydratedDag argument
MaxCommits == 3      \* length of commitShas
MaxBatchSize == 2    \* the batchSize a caller passes

(***************************************************************************)
(* Generic helpers for the encodings above.                                *)
(***************************************************************************)
Range(s) == {s[k] : k \in 1..Len(s)}

EmptyMap == <<>>

MapHas(m, k) == k \in DOMAIN m

MapSet(m, k, v) == [x \in (DOMAIN m) \cup {k} |-> IF x = k THEN v ELSE m[x]]

\* Set.prototype.add: appends unless already present.
SetAdd(s, x) == IF x \in Range(s) THEN s ELSE Append(s, x)

RECURSIVE SetAddAll(_, _)
SetAddAll(s, xs) ==
  IF xs = <<>> THEN s ELSE SetAddAll(SetAdd(s, Head(xs)), Tail(xs))

SeqsUpTo(S, n) == UNION {[1..m -> S] : m \in 0..n}

(***************************************************************************)
(* The inputs: CachedBuildTargets (part_000:113-164).  Only the fields the *)
(* code reads are kept: mode, headSha, graph; target.targetId, optional    *)
(* target.targetName, dependencies, dependents.                            *)
(***************************************************************************)
Modes == {"full-dag", "filtered"}

TargetIds == {"a", "b"}

TargetNameOpts == {<<>>, <<"n">>}

Sha(k) == "h" \o ToString(k)

\* The size of an input: one for every node and for every id a node declares
\* among its dependencies or dependents.
NodeSize(node) == 1 + Len(node.dependencies) + Len(node.dependents)

RECURSIVE GraphSize(_)
GraphSize(graph) ==
  IF graph = <<>> THEN 0 ELSE NodeSize(Head(graph)) + GraphSize(Tail(graph))

\* The nodes of exactly the given size.
NodesOfSize(k) ==
  IF k < 1 THEN {}
  ELSE UNION {
         {[target |-> [targetId |-> id, targetName |-> nm],
           dependencies |-> dcs, dependents |-> dts] :
            id \in TargetIds, nm \in TargetNameOpts,
            dcs \in [1..d -> TargetIds], dts \in [1..(k - 1 - d) -> TargetIds]} :
         d \in 0..(k - 1)}

\* GraphTable(k)[i + 1] is the set of the graphs of exactly size i, for i <= k.
RECURSIVE GraphTable(_)
GraphTable(k) ==
  IF k = 0 THEN <<{<<>>}>>
  ELSE LET t == GraphTable(k - 1)
       IN  Append(t, {} \cup UNION {{<<node>> \o rest :
                                       node \in NodesOfSize(j), rest \in t[k - j + 1]} :
                                     j \in 1..k})

GraphsBySize == GraphTable(MaxSize)

(***************************************************************************)
(* buildHydratedDag, statement by statement.                               *)
(***************************************************************************)

\* Mutant of IsFullDag: the guard is missing.
IsFullDag_unchecked(snapshot) == TRUE

\* build_hydrated_dag.ts:21, the guard (negated in the code).
IsFullDag(snapshot) == snapshot.mode = "full-dag"

\* build_hydrated_dag.ts:22-24, the template literal of the Error.
ModeErrorMessage(snapshot) ==
  <<"Baseline commit ", snapshot.headSha, " must have full-dag mode, got ",
    snapshot.mode>>

\* Mutant of TargetNameOf: a missing targetName is replaced by the bare id.
TargetNameOf_bareId(node) ==
  IF node.target.targetName = <<>>
  THEN node.target.targetId
  ELSE node.target.targetName[1]

\* build_hydrated_dag.ts:33 and :43, `targetName ?? `ID:${targetId}``.
TargetNameOf(node) ==
  IF node.target.targetName = <<>>
  THEN "ID:" \o node.target.targetId
  ELSE node.target.targetName[1]

\* Mutant of SetTargetName: the first name seen for a targetId is kept.
SetTargetName_keepFirst(t2n, node) ==
  IF MapHas(t2n, node.target.targetId) THEN t2n
  ELSE MapSet(t2n, node.target.targetId, TargetNameOf(node))

\* build_hydrated_dag.ts:34 and :44.
SetTargetName(t2n, node) == MapSet(t2n, node.target.targetId, TargetNameOf(node))

\* Mutant of AddNameAlias: a rename moves the targetId, the old alias is dropped.
AddNameAlias_move(n2t, node) ==
  LET name == TargetNameOf(node)
      id   == node.target.targetId
      had  == IF MapHas(n2t, name) THEN n2t[name] ELSE <<>>
  IN  [k \in (DOMAIN n2t) \cup {name} |->
         IF k = name THEN SetAdd(had, id)
         ELSE SelectSeq(n2t[k], LAMBDA x : x # id)]

\* Mutant of AddNameAlias: the set of the name is created anew for every node.
AddNameAlias_newSet(n2t, node) ==
  MapSet(n2t, TargetNameOf(node), <<node.target.targetId>>)

\* build_hydrated_dag.ts:35-38 and :45-48.
AddNameAlias(n2t, node) ==
  LET name == TargetNameOf(node)
      had  == IF MapHas(n2t, name) THEN n2t[name] ELSE <<>>
  IN  MapSet(n2t, name, SetAdd(had, node.target.targetId))

\* Mutant of AddDependents: the node's entry is replaced, not united.
AddDependents_replace(t2d, node) ==
  MapSet(t2d, node.target.targetId, SetAddAll(<<>>, node.dependents))

\* Mutant of AddDependents: the node's dependencies are added to its
\* dependents as well.
AddDependents_withDependencies(t2d, node) ==
  LET had == IF MapHas(t2d, node.target.targetId)
             THEN t2d[node.target.targetId] ELSE <<>>
  IN  MapSet(t2d, node.target.targetId,
             SetAddAll(had, node.dependents \o node.dependencies))

\* build_hydrated_dag.ts:55-63 and :68-78: the node's own entry and dependents.
AddDependents(t2d, node) ==
  LET had == IF MapHas(t2d, node.target.targetId)
             THEN t2d[node.target.targetId] ELSE <<>>
  IN  MapSet(t2d, node.target.targetId, SetAddAll(had, node.dependents))

\* Mutant of AddReverseEdge: a dependency that has no entry yet is skipped
\* (what the earlier copy of the function, part_000:83-89, does).
AddReverseEdge_ifPresent(t2d, dependencyTargetId, targetId) ==
  IF MapHas(t2d, dependencyTargetId)
  THEN MapSet(t2d, dependencyTargetId, SetAdd(t2d[dependencyTargetId], targetId))
  ELSE t2d

\* build_hydrated_dag.ts:83-86, one iteration of the loop over dependencies.
AddReverseEdge(t2d, dependencyTargetId, targetId) ==
  LET had == IF MapHas(t2d, dependencyTargetId) THEN t2d[dependencyTargetId] ELSE <<>>
  IN  MapSet(t2d, dependencyTargetId, SetAdd(had, targetId))

\* build_hydrated_dag.ts:82-87.
RECURSIVE AddReverseEdges(_, _, _)
AddReverseEdges(t2d, dependencies, targetId) ==
  IF dependencies = <<>> THEN t2d
  ELSE AddReverseEdges(AddReverseEdge(t2d, Head(dependencies), targetId),
                       Tail(dependencies), targetId)

\* Mutant of BaselineEdgeStep: the baseline's dependencies are folded too.
BaselineEdgeStep_withDependencies(t2d, node) ==
  AddReverseEdges(AddDependents(t2d, node), node.dependencies, node.target.targetId)

\* build_hydrated_dag.ts:54-64, the body of the loop over the baseline graph.
BaselineEdgeStep(t2d, node) == AddDependents(t2d, node)

\* Mutant of AdditionalEdgeStep: the declared dependencies are not folded.
AdditionalEdgeStep_dependentsOnly(t2d, node) == AddDependents(t2d, node)

\* build_hydrated_dag.ts:67-88, the body of the loop over an additional graph.
AdditionalEdgeStep(t2d, node) ==
  AddReverseEdges(AddDependents(t2d, node), node.dependencies, node.target.targetId)

(***************************************************************************)
(* buildHydratedDag as a function of its arguments: the same loop bodies,  *)
(* folded over the graphs.                                                 *)
(***************************************************************************)

\* build_hydrated_dag.ts:32-39, and :42-49 for one additional snapshot.
RECURSIVE FoldNames(_, _)
FoldNames(tables, graph) ==
  IF graph = <<>> THEN tables
  ELSE FoldNames([targetIdToName |-> SetTargetName(tables.targetIdToName, Head(graph)),
                  nameToTargetIds |-> AddNameAlias(tables.nameToTargetIds, Head(graph))],
                 Tail(graph))

\* build_hydrated_dag.ts:41-50.
RECURSIVE FoldAdditionalNames(_, _)
FoldAdditionalNames(tables, additional) ==
  IF additional = <<>> THEN tables
  ELSE FoldAdditionalNames(FoldNames(tables, Head(additional).graph), Tail(additional))

\* build_hydrated_dag.ts:54-64.
RECURSIVE FoldBaselineEdges(_, _)
FoldBaselineEdges(t2d, graph) ==
  IF graph = <<>> THEN t2d
  ELSE FoldBaselineEdges(BaselineEdgeStep(t2d, Head(graph)), Tail(graph))

\* build_hydrated_dag.ts:67-88, one additional snapshot.
RECURSIVE FoldSnapshotEdges(_, _)
FoldSnapshotEdges(t2d, graph) ==
  IF graph = <<>> THEN t2d
  ELSE FoldSnapshotEdges(AdditionalEdgeStep(t2d, Head(graph)), Tail(graph))

\* build_hydrated_dag.ts:66-89.
RECURSIVE FoldAdditionalEdges(_, _)
FoldAdditionalEdges(t2d, additional) ==
  IF additional = <<>> THEN t2d
  ELSE FoldAdditionalEdges(FoldSnapshotEdges(t2d, Head(additional).graph),
                           Tail(additional))

\* build_hydrated_dag.ts:14-92: <<>> when the call throws, else <<the result>>.
buildHydratedDag(baseline, additional) ==
  IF ~IsFullDag(baseline) THEN <<>>
  ELSE LET tables ==
             FoldAdditionalNames(
               FoldNames([targetIdToName |-> EmptyMap, nameToTargetIds |-> EmptyMap],
                         baseline.graph),
               additional)
       IN  <<[targetIdToDependentIds |->
                FoldAdditionalEdges(FoldBaselineEdges(EmptyMap, baseline.graph),
                                    additional),
              targetIdToName |-> tables.targetIdToName,
              nameToTargetIds |-> tables.nameToTargetIds]>>

\* The first node at or after <<s, n>> in additionalTargets, <<0, 0>> if none.
RECURSIVE AdditionalFrom(_, _)
AdditionalFrom(s, n) ==
  IF s > Len(additionalTargets) THEN <<0, 0>>
  ELSE IF n <= Len(additionalTargets[s].graph) THEN <<s, n>>
  ELSE AdditionalFrom(s + 1, 1)

\* Where control is once the loops up to the given one have run out of nodes:
\* the next loop body to run, or the return statement.
PosEdgesAdditional(s, n) ==
  LET c == AdditionalFrom(s, n)
  IN  IF c # <<0, 0>> THEN [pc |-> "edges_additional", cursor |-> c]
      ELSE [pc |-> "return", cursor |-> <<0, 0>>]

PosEdgesBaseline(n) ==
  IF n <= Len(baselineTargets.graph)
  THEN [pc |-> "edges_baseline", cursor |-> <<0, n>>]
  ELSE PosEdgesAdditional(1, 1)

PosNamesAdditional(s, n) ==
  LET c == AdditionalFrom(s, n)
  IN  IF c # <<0, 0>> THEN [pc |-> "names_additional", cursor |-> c]
      ELSE PosEdgesBaseline(1)

PosNamesBaseline(n) ==
  IF n <= Len(baselineTargets.graph)
  THEN [pc |-> "names_baseline", cursor |-> <<0, n>>]
  ELSE PosNamesAdditional(1, 1)

Goto(pos) == pc' = pos.pc /\ cursor' = pos.cursor

\* build_hydrated_dag.ts:21-25, the guard fails.
ThrowNotFullDag ==
  /\ pc = "check"
  /\ ~IsFullDag(baselineTargets)
  /\ error' = <<ModeErrorMessage(baselineTargets)>>
  /\ pc' = "threw"
  /\ UNCHANGED <<baselineTargets, additionalTargets, cursor, targetIdToName,
                 nameToTargetIds, targetIdToDependentIds, hydratedDag>>
  /\ UNCHANGED closureVars
  /\ UNCHANGED fetchVars

\* build_hydrated_dag.ts:21-30, the guard passes and the name tables are created.
CheckMode ==
  /\ pc = "check"
  /\ IsFullDag(baselineTargets)
  /\ targetIdToName' = EmptyMap
  /\ nameToTargetIds' = EmptyMap
  /\ Goto(PosNamesBaseline(1))
  /\ UNCHANGED <<baselineTargets, additionalTargets, targetIdToDependentIds,
                 error, hydratedDag>>
  /\ UNCHANGED closureVars
  /\ UNCHANGED fetchVars

\* build_hydrated_dag.ts:32-39, one iteration.
NameBaselineNode ==
  /\ pc = "names_baseline"
  /\ LET node == baselineTargets.graph[cursor[2]]
     IN  /\ targetIdToName' = SetTargetName(targetIdToName, node)
         /\ nameToTargetIds' = AddNameAlias(nameToTargetIds, node)
  /\ Goto(PosNamesBaseline(cursor[2] + 1))
  /\ UNCHANGED <<baselineTargets, additionalTargets, targetIdToDependentIds,
                 error, hydratedDag>>
  /\ UNCHANGED closureVars
  /\ UNCHANGED fetchVars

\* build_hydrated_dag.ts:41-50, one iteration of the inner loop.
NameAdditionalNode ==
  /\ pc = "names_additional"
  /\ LET node == additionalTargets[cursor[1]].graph[cursor[2]]
     IN  /\ targetIdToName' = SetTargetName(targetIdToName, node)
         /\ nameToTargetIds' = AddNameAlias(nameToTargetIds, node)
  /\ Goto(PosNamesAdditional(cursor[1], cursor[2] + 1))
  /\ UNCHANGED <<baselineTargets, additionalTargets, targetIdToDependentIds,
                 error, hydratedDag>>
  /\ UNCHANGED closureVars
  /\ UNCHANGED fetchVars

\* build_hydrated_dag.ts:54-64, one iteration.
EdgeBaselineNode ==
  /\ pc = "edges_baseline"
  /\ targetIdToDependentIds' =
       BaselineEdgeStep(targetIdToDependentIds, baselineTargets.graph[cursor[2]])
  /\ Goto(PosEdgesBaseline(cursor[2] + 1))
  /\ UNCHANGED <<baselineTargets, additionalTargets, targetIdToName,
                 nameToTargetIds, error, hydratedDag>>
  /\ UNCHANGED closureVars
  /\ UNCHANGED fetchVars

\* build_hydrated_dag.ts:66-89, one iteration of the inner loop.
EdgeAdditionalNode ==
  /\ pc = "edges_additional"
  /\ targetIdToDependentIds' =
       AdditionalEdgeStep(targetIdToDependentIds,
                          additionalTargets[cursor[1]].graph[cursor[2]])
  /\ Goto(PosEdgesAdditional(cursor[1], cursor[2] + 1))
  /\ UNCHANGED <<baselineTargets, additionalTargets, targetIdToName,
                 nameToTargetIds, error, hydratedDag>>
  /\ UNCHANGED closureVars
  /\ UNCHANGED fetchVars

\* build_hydrated_dag.ts:91.
ReturnHydratedDag ==
  /\ pc = "return"
  /\ hydratedDag' = <<[targetIdToDependentIds |-> targetIdToDependentIds,
                       targetIdToName |-> targetIdToName,
                       nameToTargetIds |-> nameToTargetIds]>>
  /\ pc' = "returned"
  /\ UNCHANGED hydrateVars
  /\ UNCHANGED closureVars
  /\ UNCHANGED fetchVars

\* No call of computeTransitiveTargets is running.
ClosureIdle ==
  /\ directPackageNames = <<>>
  /\ packagesNotInDag = <<>>
  /\ directTargetIds = <<>>
  /\ resultTargetIds = <<>>
  /\ toProcess = <<>>
  /\ processed = {}
  /\ targets = <<>>

\* No call of getCachedTargetsForCommits is running.
FetchIdle ==
  /\ commitShas = <<>>
  /\ kind = ""
  /\ batchSize = 0
  /\ keyGenerator = ""
  /\ chunkedInputs = <<>>
  /\ results = <<>>
  /\ chunkResults = <<>>
  /\ storageCalls = <<>>
  /\ targetMap = EmptyMap
  /\ failedShas = <<>>
  /\ thrown = <<>>

\* Nothing has been called yet.
InitHydrate ==
  /\ pc = "idle"
  /\ baselineTargets = <<>>
  /\ additionalTargets = <<>>
  /\ cursor = <<0, 0>>
  /\ targetIdToName = EmptyMap
  /\ nameToTargetIds = EmptyMap
  /\ targetIdToDependentIds = EmptyMap
  /\ error = <<>>
  /\ hydratedDag = <<>>
  /\ ClosureIdle
  /\ FetchIdle

\* The caller's additionalTargets: front, or front followed by further
\* snapshots of at most budget together, MaxAdditional snapshots at most; the
\* snapshot at position p carries headSha Sha(p).
RECURSIVE PassAdditional(_, _)
PassAdditional(front, budget) ==
  \/ additionalTargets' = front
  \/ /\ Len(front) < MaxAdditional
     /\ \E j \in 0..budget :
          \E m \in Modes, g \in GraphsBySize[j + 1] :
            PassAdditional(
              Append(front, [mode |-> m, headSha |-> Sha(Len(front) + 1), graph |-> g]),
              budget - j)

\* build_hydrated_dag.ts:14-20: buildHydratedDag({baselineTargets,
\* additionalTargets}) is entered with arguments of at most MaxSize together.
CallBuildHydratedDag ==
  /\ pc = "idle"
  /\ \E i \in 0..MaxSize :
       /\ \E m \in Modes, g \in GraphsBySize[i + 1] :
            baselineTargets' = [mode |-> m, headSha |-> Sha(0), graph |-> g]
       /\ PassAdditional(<<>>, MaxSize - i)
  /\ pc' = "check"
  /\ UNCHANGED <<cursor, targetIdToName, nameToTargetIds, targetIdToDependentIds,
                 error, hydratedDag>>
  /\ UNCHANGED closureVars
  /\ UNCHANGED fetchVars

NextHydrate ==
  \/ CallBuildHydratedDag
  \/ ThrowNotFullDag
  \/ CheckMode
  \/ NameBaselineNode
  \/ NameAdditionalNode
  \/ EdgeBaselineNode
  \/ EdgeAdditionalNode
  \/ ReturnHydratedDag

SpecHydrate == InitHydrate /\ [][NextHydrate]_vars

(***************************************************************************)
(* Properties of buildHydratedDag.                                         *)
(***************************************************************************)
Returned == pc = "returned"

Threw == pc = "threw"

Dag == hydratedDag[1]

\* A Map<string, Set<string>> read as key set and member sets, order forgotten.
EdgeSets(t2d) == [k \in DOMAIN t2d |-> Range(t2d[k])]

HasEdge(t2d, y, x) == MapHas(t2d, y) /\ x \in Range(t2d[y])

EdgesSubset(small, large) ==
  \A y \in DOMAIN small : \A x \in Range(small[y]) : HasEdge(large, y, x)

KeysSubset(small, large) == DOMAIN small \subseteq DOMAIN large

RECURSIVE FlattenGraphs(_)
FlattenGraphs(snapshots) ==
  IF snapshots = <<>> THEN <<>>
  ELSE Head(snapshots).graph \o FlattenGraphs(Tail(snapshots))

\* The nodes in the order in which they are folded.
FoldedNodes == FlattenGraphs(<<baselineTargets>> \o additionalTargets)

AdditionalNodes == FlattenGraphs(additionalTargets)

NodeIds(nodes) == {nodes[k].target.targetId : k \in 1..Len(nodes)}

Permute(seq, p) == [k \in 1..Len(seq) |-> seq[p[k]]]

\* C1: buildHydratedDag throws exactly when the baseline's mode is not
\* "full-dag", whatever additionalTargets holds; the Error names the required
\* mode, the baseline's headSha and the observed mode, and nothing is
\* returned; with a full-dag baseline the call runs on until it returns a
\* HydratedDag.
C1_FullDagPrecondition ==
  pc \notin {"idle", "check"} =>
    /\ Threw <=> baselineTargets.mode # "full-dag"
    /\ Threw =>
         /\ Len(error) = 1
         /\ {" must have full-dag mode, got ", baselineTargets.headSha,
             baselineTargets.mode} \subseteq Range(error[1])
         /\ hydratedDag = <<>>
         /\ targetIdToName = EmptyMap /\ nameToTargetIds = EmptyMap
         /\ targetIdToDependentIds = EmptyMap
    /\ ~Threw =>
         /\ error = <<>>
         /\ Returned => Len(hydratedDag) = 1
         /\ ~Returned => hydratedDag = <<>> /\ ENABLED NextHydrate

\* C1 witness: a filtered baseline was rejected although an additional
\* snapshot is full-dag and carries nodes.
C1_Witness ==
  /\ Threw
  /\ \E k \in 1..Len(additionalTargets) :
       additionalTargets[k].mode = "full-dag" /\ additionalTargets[k].graph # <<>>

\* C3: the edges of the result (key set and, per key, the set of dependents)
\* are the same for every permutation of additionalTargets.
C3_EdgesOrderIndependent ==
  Returned =>
    \A p \in Permutations(1..Len(additionalTargets)) :
      LET r == buildHydratedDag(baselineTargets, Permute(additionalTargets, p))
      IN  /\ Len(r) = 1
          /\ EdgeSets(r[1].targetIdToDependentIds) = EdgeSets(Dag.targetIdToDependentIds)

\* C3 witness: two different non-empty additional snapshots, a node of the
\* first declaring a dependency on a node that only the second describes, and
\* the two orders give different name tables.
C3_Witness ==
  /\ Returned
  /\ Len(additionalTargets) = 2
  /\ baselineTargets.graph = <<>>
  /\ \E x \in Range(additionalTargets[1].graph), y \in Range(additionalTargets[2].graph) :
       /\ x.target.targetId # y.target.targetId
       /\ y.target.targetId \in Range(x.dependencies)
       /\ HasEdge(Dag.targetIdToDependentIds, y.target.targetId, x.target.targetId)
  /\ buildHydratedDag(baselineTargets,
                      <<additionalTargets[2], additionalTargets[1]>>)[1].nameToTargetIds
       # Dag.nameToTargetIds

\* C4: every dependency Y declared by a node X of an additional snapshot gives
\* the edge Y -> X in the result, also when Y has no entry of its own.
C4_ReverseEdgeSynthesis ==
  Returned =>
    \A k \in 1..Len(AdditionalNodes) :
      \A y \in Range(AdditionalNodes[k].dependencies) :
        HasEdge(Dag.targetIdToDependentIds, y, AdditionalNodes[k].target.targetId)

\* C4 witness: the dependency is a node of no snapshot, so no node lists the
\* dependent, and the edge is there.
C4_Witness ==
  /\ Returned
  /\ \E k \in 1..Len(AdditionalNodes) :
       \E y \in Range(AdditionalNodes[k].dependencies) :
         /\ y \notin NodeIds(FoldedNodes)
         /\ HasEdge(Dag.targetIdToDependentIds, y, AdditionalNodes[k].target.targetId)

\* Some folded node y lists x among its dependents.
ListedAsDependent(y, x) ==
  \E k \in 1..Len(FoldedNodes) :
    FoldedNodes[k].target.targetId = y /\ x \in Range(FoldedNodes[k].dependents)

\* Some node x of an additional snapshot declares the dependency y.
DeclaredByAdditional(y, x) ==
  \E k \in 1..Len(AdditionalNodes) :
    AdditionalNodes[k].target.targetId = x /\ y \in Range(AdditionalNodes[k].dependencies)

\* C5 as claimed: every dependency Y declared by a node X of the baseline
\* graph gives the edge Y -> X in the result.
C5_BaselineReverseEdges ==
  Returned =>
    \A k \in 1..Len(baselineTargets.graph) :
      \A y \in Range(baselineTargets.graph[k].dependencies) :
        HasEdge(Dag.targetIdToDependentIds, y, baselineTargets.graph[k].target.targetId)

\* C5 amended: the dependencies declared by baseline nodes are not folded; for
\* a baseline node X declaring Y the edge Y -> X is in the result exactly when
\* some folded node Y lists X among its dependents or a node X of an
\* additional snapshot declares the dependency Y.
C5_BaselineDependenciesNotFolded ==
  Returned =>
    \A k \in 1..Len(baselineTargets.graph) :
      \A y \in Range(baselineTargets.graph[k].dependencies) :
        LET x == baselineTargets.graph[k].target.targetId
        IN  HasEdge(Dag.targetIdToDependentIds, y, x)
              <=> (ListedAsDependent(y, x) \/ DeclaredByAdditional(y, x))

\* C5 witness: a baseline node declares a dependency on another baseline node
\* and the result has no such edge.
C5_Witness ==
  /\ Returned
  /\ \E k \in 1..Len(baselineTargets.graph) :
       \E y \in Range(baselineTargets.graph[k].dependencies) :
         /\ y \in NodeIds(baselineTargets.graph)
         /\ MapHas(Dag.targetIdToDependentIds, y)
         /\ ~HasEdge(Dag.targetIdToDependentIds, y,
                     baselineTargets.graph[k].target.targetId)

\* C6: targetIdToName[T] is the name carried by the last occurrence of T among
\* the folded nodes (baseline graph, then each additional graph in turn).
C6_LastNameWins ==
  Returned =>
    \A k \in 1..Len(FoldedNodes) :
      LET t == FoldedNodes[k].target.targetId
      IN  (\A j \in (k + 1)..Len(FoldedNodes) : FoldedNodes[j].target.targetId # t)
            => /\ MapHas(Dag.targetIdToName, t)
               /\ Dag.targetIdToName[t] = TargetNameOf(FoldedNodes[k])

\* C6 witness: an additional snapshot renamed a baseline target.
C6_Witness ==
  /\ Returned
  /\ \E b \in Range(baselineTargets.graph), a \in Range(AdditionalNodes) :
       /\ a.target.targetId = b.target.targetId
       /\ TargetNameOf(a) # TargetNameOf(b)
       /\ Dag.targetIdToName[a.target.targetId] = TargetNameOf(a)

\* C7: every name any folded node carries for T still maps to T in
\* nameToTargetIds, whatever later nodes call T.
C7_OldAliasRetained ==
  Returned =>
    \A k \in 1..Len(FoldedNodes) :
      /\ MapHas(Dag.nameToTargetIds, TargetNameOf(FoldedNodes[k]))
      /\ FoldedNodes[k].target.targetId
           \in Range(Dag.nameToTargetIds[TargetNameOf(FoldedNodes[k])])

\* C7 witness: T was renamed and both its old and its new name map to it.
C7_Witness ==
  /\ Returned
  /\ \E k \in 1..Len(FoldedNodes) :
       LET t   == FoldedNodes[k].target.targetId
           old == TargetNameOf(FoldedNodes[k])
           new == Dag.targetIdToName[t]
       IN  /\ old # new
           /\ t \in Range(Dag.nameToTargetIds[old])
           /\ t \in Range(Dag.nameToTargetIds[new])

Prefix(seq, k) == SubSeq(seq, 1, k)

\* C8: no step of the fold removes a key or a dependent from
\* targetIdToDependentIds, and the edges of buildHydratedDag(B, A) are among
\* those of buildHydratedDag(B, A followed by s): for every prefix of
\* additionalTargets, and for the whole list against the value returned.
C8_EdgesMonotonic ==
  /\ [][/\ KeysSubset(targetIdToDependentIds, targetIdToDependentIds')
        /\ EdgesSubset(targetIdToDependentIds, targetIdToDependentIds')]_vars
  /\ [](Returned =>
          \A k \in 0..(Len(additionalTargets) - 1) :
            LET before == buildHydratedDag(baselineTargets, Prefix(additionalTargets, k))
                after  == IF k + 1 = Len(additionalTargets) THEN hydratedDag
                          ELSE buildHydratedDag(baselineTargets,
                                                Prefix(additionalTargets, k + 1))
            IN  /\ Len(before) = 1 /\ Len(after) = 1
                /\ KeysSubset(before[1].targetIdToDependentIds,
                              after[1].targetIdToDependentIds)
                /\ EdgesSubset(before[1].targetIdToDependentIds,
                               after[1].targetIdToDependentIds))

\* C8 witness: the last snapshot describes T with no dependents, an earlier
\* node gave T dependents, and they are still there.
C8_Witness ==
  /\ Returned
  /\ Len(additionalTargets) >= 1
  /\ \E n \in Range(additionalTargets[Len(additionalTargets)].graph) :
       /\ n.dependents = <<>>
       /\ n.dependencies = <<>>
       /\ \E k \in 1..Len(FoldedNodes) :
            /\ FoldedNodes[k].target.targetId = n.target.targetId
            /\ FoldedNodes[k].dependents # <<>>
       /\ Dag.targetIdToDependentIds[n.target.targetId] # <<>>

(***************************************************************************)
(* The HydratedDag arguments of computeTransitiveTargets: the results of   *)
(* buildHydratedDag and the DAGs the tests build with createHydratedDag    *)
(* (get_cached_targets.ts:136-154).                                        *)
(***************************************************************************)
EmptyDag ==
  [targetIdToDependentIds |-> EmptyMap, targetIdToName |-> EmptyMap,
   nameToTargetIds |-> EmptyMap]

\* The keys of packageToDependents (Record<string, string[]>): the package
\* names of the tests' chain and the empty string.
Packages == <<"utils", "frontend", "backend", "">>

\* get_cached_targets.ts:144 and :147, `${pkg}#build`.
BuildId(pkg) == pkg \o "#build"

\* get_cached_targets.ts:143-151, one iteration.
CreateEntry(dag, entry) ==
  LET targetId == BuildId(entry.pkg)
      dependentIds == [k \in 1..Len(entry.dependents) |-> BuildId(entry.dependents[k])]
  IN  [targetIdToDependentIds |->
         MapSet(dag.targetIdToDependentIds, targetId, SetAddAll(<<>>, dependentIds)),
       targetIdToName |-> MapSet(dag.targetIdToName, targetId, entry.pkg),
       nameToTargetIds |-> MapSet(dag.nameToTargetIds, entry.pkg, <<targetId>>)]

RECURSIVE CreateEntries(_, _)
CreateEntries(dag, entries) ==
  IF entries = <<>> THEN dag
  ELSE CreateEntries(CreateEntry(dag, Head(entries)), Tail(entries))

\* get_cached_targets.ts:136-154; packageToDependents is the sequence of its
\* entries [pkg, dependents], the keys distinct.
createHydratedDag(packageToDependents) == CreateEntries(EmptyDag, packageToDependents)

\* The strings a schema-valid snapshot may carry in place of the name "n" and
\* of the id "b" (part_000:115-117, z.string() admits the empty string).
NameStrings == {"n", ""}

IdStrings == {"b", ""}

SubstitutedId(id, newId) == IF id = "b" THEN newId ELSE id

SubstitutedNode(node, newName, newId) ==
  [target |->
     [targetId |-> SubstitutedId(node.target.targetId, newId),
      targetName |-> IF node.target.targetName = <<"n">> THEN <<newName>>
                     ELSE node.target.targetName],
   dependencies |->
     [k \in 1..Len(node.dependencies) |-> SubstitutedId(node.dependencies[k], newId)],
   dependents |->
     [k \in 1..Len(node.dependents) |-> SubstitutedId(node.dependents[k], newId)]]

Substituted(graph, newName, newId) ==
  [k \in 1..Len(graph) |-> SubstitutedNode(graph[k], newName, newId)]

\* The HydratedDag of a full-dag baseline without nodes and one further
\* snapshot with the given graph.
HydratedFrom(graph) ==
  buildHydratedDag([mode |-> "full-dag", headSha |-> Sha(0), graph |-> <<>>],
                   <<[mode |-> "filtered", headSha |-> Sha(1), graph |-> graph]>>)[1]

(***************************************************************************)
(* computeTransitiveTargets, statement by statement.                       *)
(***************************************************************************)

\* JavaScript truthiness of a string: only the empty string is falsy.
IsFalsy(str) == str = ""

\* Mutant of LookupTargetIds: a name that is not found is taken as a target id.
LookupTargetIds_asId(n2t, name) ==
  IF MapHas(n2t, name) THEN <<n2t[name]>> ELSE <<<<name>>>>

\* part_002:312, nameToTargetIds.get(name): <<>> when undefined.
LookupTargetIds(n2t, name) ==
  IF MapHas(n2t, name) THEN <<n2t[name]>> ELSE <<>>

\* part_002:329, processed.add(targetId).
MarkProcessed(done, targetId) == done \cup {targetId}

\* part_002:332, targetIdToDependentIds.get(targetId): <<>> when undefined.
LookupDependentIds(t2d, targetId) ==
  IF MapHas(t2d, targetId) THEN <<t2d[targetId]>> ELSE <<>>

\* Mutant of PushUnprocessed: every dependent is pushed, visited or not.
PushUnprocessed_all(queue, dependentIds, done) == queue \o dependentIds

\* Mutant of PushUnprocessed: the loop ends at the first dependent that has
\* been visited (break in place of the if).
RECURSIVE PushUnprocessed_break(_, _, _)
PushUnprocessed_break(queue, dependentIds, done) ==
  IF dependentIds = <<>> \/ Head(dependentIds) \in done THEN queue
  ELSE PushUnprocessed_break(Append(queue, Head(dependentIds)), Tail(dependentIds), done)

\* part_002:334-338, the loop over dependentIds.
RECURSIVE PushUnprocessed(_, _, _)
PushUnprocessed(queue, dependentIds, done) ==
  IF dependentIds = <<>> THEN queue
  ELSE PushUnprocessed(
         IF Head(dependentIds) \notin done THEN Append(queue, Head(dependentIds))
         ELSE queue,
         Tail(dependentIds), done)

\* part_002:343-348, the loop over resultTargetIds.
RECURSIVE NamedTargets(_, _, _)
NamedTargets(set, ids, t2n) ==
  IF ids = <<>> THEN set
  ELSE NamedTargets(
         IF MapHas(t2n, Head(ids)) /\ ~IsFalsy(t2n[Head(ids)])
         THEN Append(set, [id |-> Head(ids), name |-> t2n[Head(ids)]])
         ELSE set,
         Tail(ids), t2n)

\* part_002:350-352, the loop over packagesNotInDag.
RECURSIVE SyntheticTargets(_, _)
SyntheticTargets(set, names) ==
  IF names = <<>> THEN set
  ELSE SyntheticTargets(Append(set, [id |-> Head(names), name |-> Head(names)]),
                        Tail(names))

\* The caller's arguments: the given dag and a list of at most MaxSeeds names,
\* each a key of nameToTargetIds, the given name that is not one, or the
\* empty string.
PassArguments(dag, absentName) ==
  /\ hydratedDag' = <<dag>>
  /\ \E names \in SeqsUpTo((DOMAIN dag.nameToTargetIds) \cup {absentName, ""},
                            MaxSeeds) :
       directPackageNames' = names

\* The createHydratedDag arguments over the packages of rest, of at most
\* budget together, appended to entries.
RECURSIVE PassPackages(_, _, _)
PassPackages(rest, entries, budget) ==
  IF rest = <<>> THEN PassArguments(createHydratedDag(entries), BuildId(Packages[1]))
  ELSE \/ PassPackages(Tail(rest), entries, budget)
       \/ /\ budget >= 1
          /\ \E dependents \in SeqsUpTo(Range(Packages), budget - 1) :
               PassPackages(Tail(rest),
                            Append(entries, [pkg |-> Head(rest), dependents |-> dependents]),
                            budget - 1 - Len(dependents))

\* part_002:298-310, entered with a dag of createHydratedDag.
CallWithCreatedDag ==
  /\ pc = "idle"
  /\ PassPackages(Packages, <<>>, MaxDagSize)
  /\ packagesNotInDag' = <<>>
  /\ directTargetIds' = <<>>
  /\ pc' = "names"
  /\ cursor' = <<0, 1>>
  /\ UNCHANGED <<baselineTargets, additionalTargets, targetIdToName, nameToTargetIds,
                 targetIdToDependentIds, error>>
  /\ UNCHANGED fetchVars
  /\ UNCHANGED <<resultTargetIds, toProcess, processed, targets>>

\* part_002:298-310, entered with a dag of buildHydratedDag.
CallWithHydratedDag ==
  /\ pc = "idle"
  /\ \E i \in 0..MaxSize :
       \E graph \in GraphsBySize[i + 1], newName \in NameStrings, newId \in IdStrings :
         PassArguments(HydratedFrom(Substituted(graph, newName, newId)), "a")
  /\ packagesNotInDag' = <<>>
  /\ directTargetIds' = <<>>
  /\ pc' = "names"
  /\ cursor' = <<0, 1>>
  /\ UNCHANGED <<baselineTargets, additionalTargets, targetIdToName, nameToTargetIds,
                 targetIdToDependentIds, error>>
  /\ UNCHANGED fetchVars
  /\ UNCHANGED <<resultTargetIds, toProcess, processed, targets>>

\* The ids a snapshot may list as a dependent or a dependency without
\* holding a node for them (part_000:115-127, z.string()).
DeclaredIds == {"u", ""}

\* A graph of two nodes: "a" lists the declared id as a dependent and "c"
\* lists it as a dependency, so that "c" is reached from "a" only through it.
DependencyGraph(declared, name) ==
  <<[target |-> [targetId |-> "a", targetName |-> <<"n">>],
     dependencies |-> <<>>, dependents |-> <<declared>>],
    [target |-> [targetId |-> "c", targetName |-> name],
     dependencies |-> <<declared>>, dependents |-> <<>>]>>

\* part_002:298-310, entered with a dag of buildHydratedDag in which an id
\* without a node lies between two nodes.
CallWithUnnamedDependency ==
  /\ pc = "idle"
  /\ \E declared \in DeclaredIds, name \in {<<>>, <<"m">>, <<"">>} :
       PassArguments(HydratedFrom(DependencyGraph(declared, name)), "z")
  /\ packagesNotInDag' = <<>>
  /\ directTargetIds' = <<>>
  /\ pc' = "names"
  /\ cursor' = <<0, 1>>
  /\ UNCHANGED <<baselineTargets, additionalTargets, targetIdToName, nameToTargetIds,
                 targetIdToDependentIds, error>>
  /\ UNCHANGED fetchVars
  /\ UNCHANGED <<resultTargetIds, toProcess, processed, targets>>

\* Mutant of ResolveName: the loop takes the names off the caller's list
\* (directPackageNames.shift()) instead of iterating over it.
ResolveName_shift ==
  /\ pc = "names"
  /\ cursor[2] <= Len(directPackageNames)
  /\ LET targetIds ==
           LookupTargetIds(hydratedDag[1].nameToTargetIds, Head(directPackageNames))
     IN  /\ targetIds # <<>>
         /\ directTargetIds' = directTargetIds \o targetIds[1]
  /\ directPackageNames' = Tail(directPackageNames)
  /\ UNCHANGED <<pc, cursor, hydratedDag, packagesNotInDag,
                 resultTargetIds, toProcess, processed, targets>>
  /\ UNCHANGED <<baselineTargets, additionalTargets, targetIdToName, nameToTargetIds,
                 targetIdToDependentIds, error>>
  /\ UNCHANGED fetchVars

\* part_002:311-314, one iteration, the name is found.
ResolveName ==
  /\ pc = "names"
  /\ cursor[2] <= Len(directPackageNames)
  /\ LET targetIds ==
           LookupTargetIds(hydratedDag[1].nameToTargetIds, directPackageNames[cursor[2]])
     IN  /\ targetIds # <<>>
         /\ directTargetIds' = directTargetIds \o targetIds[1]
  /\ cursor' = <<0, cursor[2] + 1>>
  /\ UNCHANGED <<pc, hydratedDag, directPackageNames, packagesNotInDag,
                 resultTargetIds, toProcess, processed, targets>>
  /\ UNCHANGED <<baselineTargets, additionalTargets, targetIdToName, nameToTargetIds,
                 targetIdToDependentIds, error>>
  /\ UNCHANGED fetchVars

\* part_002:311-317, one iteration, the name is not found.
NameNotInDag ==
  /\ pc = "names"
  /\ cursor[2] <= Len(directPackageNames)
  /\ LookupTargetIds(hydratedDag[1].nameToTargetIds, directPackageNames[cursor[2]]) = <<>>
  /\ packagesNotInDag' = Append(packagesNotInDag, directPackageNames[cursor[2]])
  /\ cursor' = <<0, cursor[2] + 1>>
  /\ UNCHANGED <<pc, hydratedDag, directPackageNames, directTargetIds,
                 resultTargetIds, toProcess, processed, targets>>
  /\ UNCHANGED <<baselineTargets, additionalTargets, targetIdToName, nameToTargetIds,
                 targetIdToDependentIds, error>>
  /\ UNCHANGED fetchVars

\* Mutant of StartTraversal: the queue starts with every key of
\* targetIdToDependentIds instead of the ids of the seeds.
StartTraversal_fromEveryKey ==
  /\ pc = "names"
  /\ cursor[2] > Len(directPackageNames)
  /\ resultTargetIds' = <<>>
  /\ LET keys == DOMAIN hydratedDag[1].targetIdToDependentIds
     IN  \E queue \in [1..Cardinality(keys) -> keys] :
           Range(queue) = keys /\ toProcess' = queue
  /\ processed' = {}
  /\ pc' = "traverse"
  /\ cursor' = <<0, 0>>
  /\ UNCHANGED <<hydratedDag, directPackageNames, packagesNotInDag, directTargetIds,
                 targets>>
  /\ UNCHANGED <<baselineTargets, additionalTargets, targetIdToName, nameToTargetIds,
                 targetIdToDependentIds, error>>
  /\ UNCHANGED fetchVars

\* part_002:320-322.
StartTraversal ==
  /\ pc = "names"
  /\ cursor[2] > Len(directPackageNames)
  /\ resultTargetIds' = <<>>
  /\ toProcess' = directTargetIds
  /\ processed' = {}
  /\ pc' = "traverse"
  /\ cursor' = <<0, 0>>
  /\ UNCHANGED <<hydratedDag, directPackageNames, packagesNotInDag, directTargetIds,
                 targets>>
  /\ UNCHANGED <<baselineTargets, additionalTargets, targetIdToName, nameToTargetIds,
                 targetIdToDependentIds, error>>
  /\ UNCHANGED fetchVars

\* part_002:324-328, one iteration that ends at `continue`.
SkipTarget ==
  /\ pc = "traverse"
  /\ toProcess # <<>>
  /\ IsFalsy(Head(toProcess)) \/ Head(toProcess) \in processed
  /\ toProcess' = Tail(toProcess)
  /\ UNCHANGED <<pc, cursor, hydratedDag, directPackageNames, packagesNotInDag,
                 directTargetIds, resultTargetIds, processed, targets>>
  /\ UNCHANGED <<baselineTargets, additionalTargets, targetIdToName, nameToTargetIds,
                 targetIdToDependentIds, error>>
  /\ UNCHANGED fetchVars

\* part_002:324-339, one iteration that visits the target.
VisitTarget ==
  /\ pc = "traverse"
  /\ toProcess # <<>>
  /\ ~(IsFalsy(Head(toProcess)) \/ Head(toProcess) \in processed)
  /\ LET targetId == Head(toProcess)
         dependentIds ==
           LookupDependentIds(hydratedDag[1].targetIdToDependentIds, targetId)
     IN  /\ processed' = MarkProcessed(processed, targetId)
         /\ resultTargetIds' = SetAdd(resultTargetIds, targetId)
         /\ toProcess' =
              IF dependentIds # <<>>
              THEN PushUnprocessed(Tail(toProcess), dependentIds[1], processed')
              ELSE Tail(toProcess)
  /\ UNCHANGED <<pc, cursor, hydratedDag, directPackageNames, packagesNotInDag,
                 directTargetIds, targets>>
  /\ UNCHANGED <<baselineTargets, additionalTargets, targetIdToName, nameToTargetIds,
                 targetIdToDependentIds, error>>
  /\ UNCHANGED fetchVars

\* part_002:324 and :342-348, the queue is empty and the visited ids are named.
EmitNamedTargets ==
  /\ pc = "traverse"
  /\ toProcess = <<>>
  /\ targets' = NamedTargets(<<>>, resultTargetIds, hydratedDag[1].targetIdToName)
  /\ pc' = "synthetic"
  /\ UNCHANGED <<cursor, hydratedDag, directPackageNames, packagesNotInDag,
                 directTargetIds, resultTargetIds, toProcess, processed>>
  /\ UNCHANGED <<baselineTargets, additionalTargets, targetIdToName, nameToTargetIds,
                 targetIdToDependentIds, error>>
  /\ UNCHANGED fetchVars

\* part_002:350-354.
ReturnTargets ==
  /\ pc = "synthetic"
  /\ targets' = SyntheticTargets(targets, packagesNotInDag)
  /\ pc' = "done"
  /\ UNCHANGED <<cursor, hydratedDag, directPackageNames, packagesNotInDag,
                 directTargetIds, resultTargetIds, toProcess, processed>>
  /\ UNCHANGED <<baselineTargets, additionalTargets, targetIdToName, nameToTargetIds,
                 targetIdToDependentIds, error>>
  /\ UNCHANGED fetchVars

NextClosure ==
  \/ CallWithCreatedDag
  \/ CallWithHydratedDag
  \/ CallWithUnnamedDependency
  \/ ResolveName
  \/ NameNotInDag
  \/ StartTraversal
  \/ SkipTarget
  \/ VisitTarget
  \/ EmitNamedTargets
  \/ ReturnTargets

SpecClosure == InitHydrate /\ [][NextClosure]_vars

(***************************************************************************)
(* Properties of computeTransitiveTargets.                                 *)
(***************************************************************************)
Done == pc = "done"

ClosureDag == hydratedDag[1]

DependentsOf(t2d, id) == IF MapHas(t2d, id) THEN Range(t2d[id]) ELSE {}

\* The ids reachable from ids in zero or more steps along t2d.
RECURSIVE ReachableFrom(_, _)
ReachableFrom(t2d, ids) ==
  LET next == ids \cup UNION {DependentsOf(t2d, x) : x \in ids}
  IN  IF next = ids THEN ids ELSE ReachableFrom(t2d, next)

\* Every target id the dag mentions, as a key or as a member.
AllTargetIds(dag) ==
  (DOMAIN dag.targetIdToDependentIds)
    \cup UNION {Range(dag.targetIdToDependentIds[k]) : k \in DOMAIN dag.targetIdToDependentIds}
    \cup UNION {Range(dag.nameToTargetIds[n]) : n \in DOMAIN dag.nameToTargetIds}
    \cup (DOMAIN dag.targetIdToName)

EveryIdNamed(dag) == AllTargetIds(dag) \subseteq DOMAIN dag.targetIdToName

ResolvedNames ==
  {n \in Range(directPackageNames) : MapHas(ClosureDag.nameToTargetIds, n)}

UnresolvedNames == Range(directPackageNames) \ ResolvedNames

SeedIds == UNION {Range(ClosureDag.nameToTargetIds[n]) : n \in ResolvedNames}

ReachableFromSeeds == ReachableFrom(ClosureDag.targetIdToDependentIds, SeedIds)

ReturnedIds == {targets[k].id : k \in 1..Len(targets)}

IsSynthetic(target) == target.id \in UnresolvedNames /\ target.name = target.id

\* C2: when every target id of the dag has a name entry, the returned targets
\* for the resolved seeds are exactly the ids reachable from the ids the seed
\* names resolve to: every reachable id is returned with its name, and every
\* returned target that is not the synthetic target of an unresolved seed is
\* reachable.  (The chain utils -> frontend -> backend seeded with "utils" is
\* one of the dags of createHydratedDag.)
C2_ClosureIsReachableSet ==
  (Done /\ EveryIdNamed(ClosureDag)) =>
    /\ \A r \in ReachableFromSeeds :
         [id |-> r, name |-> ClosureDag.targetIdToName[r]] \in Range(targets)
    /\ \A k \in 1..Len(targets) :
         targets[k].id \in ReachableFromSeeds \/ IsSynthetic(targets[k])

\* What the code does return: C2 with the ids and names that JavaScript takes
\* as false, the empty strings, left out of what is visited and reported.
RECURSIVE VisitableFrom(_, _)
VisitableFrom(t2d, ids) ==
  LET truthy == {x \in ids : ~IsFalsy(x)}
      next == truthy \cup UNION {DependentsOf(t2d, x) : x \in truthy}
  IN  IF next = ids THEN truthy ELSE VisitableFrom(t2d, next)

IsReported(dag, id) ==
  MapHas(dag.targetIdToName, id) /\ ~IsFalsy(dag.targetIdToName[id])

ClosureOfTruthy ==
  Done =>
    /\ Range(resultTargetIds) = VisitableFrom(ClosureDag.targetIdToDependentIds, SeedIds)
    /\ \A r \in Range(resultTargetIds) :
         IsReported(ClosureDag, r) =>
           [id |-> r, name |-> ClosureDag.targetIdToName[r]] \in Range(targets)
    /\ \A k \in 1..Len(targets) :
         \/ IsSynthetic(targets[k])
         \/ /\ targets[k].id \in Range(resultTargetIds)
            /\ IsReported(ClosureDag, targets[k].id)
            /\ targets[k].name = ClosureDag.targetIdToName[targets[k].id]

\* C9: every seed name that is not a key of nameToTargetIds is returned as
\* the synthetic target {id: n, name: n}, and nothing is traversed from it:
\* every returned target is such a synthetic target or is reachable from the
\* ids of the resolved seeds, and every visited id is reachable from them; a
\* single unresolved seed yields exactly its synthetic target.
C9_UnresolvedSeedIsSynthetic ==
  /\ (pc \in {"traverse", "synthetic", "done"}) =>
       /\ Range(packagesNotInDag) = UnresolvedNames
       /\ Range(directTargetIds) = SeedIds
       /\ Range(toProcess) \cup processed \cup Range(resultTargetIds)
            \subseteq ReachableFromSeeds
  /\ Done =>
       /\ \A n \in UnresolvedNames : [id |-> n, name |-> n] \in Range(targets)
       /\ \A k \in 1..Len(targets) :
            targets[k].id \in ReachableFromSeeds \/ IsSynthetic(targets[k])
       /\ (Len(directPackageNames) = 1 /\ UnresolvedNames # {}) =>
            targets = <<[id |-> directPackageNames[1], name |-> directPackageNames[1]]>>

\* An unresolved seed equals a key of targetIdToDependentIds with a named
\* dependent, and that dependent is not returned.
C9_Witness ==
  /\ Done
  /\ \E n \in UnresolvedNames :
       /\ MapHas(ClosureDag.targetIdToDependentIds, n)
       /\ \E d \in Range(ClosureDag.targetIdToDependentIds[n]) :
            /\ MapHas(ClosureDag.targetIdToName, d)
            /\ ~IsFalsy(ClosureDag.targetIdToName[d])
            /\ d \notin ReturnedIds
       /\ [id |-> n, name |-> n] \in Range(targets)
       /\ ResolvedNames # {}

\* A bound on the statements the running call has still to execute: every
\* statement of computeTransitiveTargets lowers it.
StepsLeft ==
  LET n == Cardinality(AllTargetIds(ClosureDag))
  IN  CASE pc = "names" ->
             4 + n * (n + 1) + Len(directTargetIds)
               + (Len(directPackageNames) + 1 - cursor[2]) * (n + 1)
        [] pc = "traverse" ->
             3 + (n - Cardinality(processed)) * (n + 1) + Len(toProcess)
        [] pc = "synthetic" -> 1
        [] OTHER -> 0

\* The traversal of computeTransitiveTargets terminates without an error on
\* every dag, cyclic ones included: while a call runs a statement can always
\* be executed, no statement raises an error, and every statement lowers
\* StepsLeft, which is never negative.
ClosureTerminates ==
  /\ [][pc # "idle" => (StepsLeft' < StepsLeft /\ StepsLeft' >= 0)]_vars
  /\ [](pc \in {"names", "traverse", "synthetic"} => ENABLED NextClosure)
  /\ [](error = <<>>)

\* The dag is a mutual dependency of two nodes x and y, and the one seed is
\* the name of one of them.
IsMutualPair(dag, x, y) ==
  /\ x # y
  /\ AllTargetIds(dag) = {x, y}
  /\ {x, y} \subseteq DOMAIN dag.targetIdToName
  /\ {x, y} \subseteq DOMAIN dag.targetIdToDependentIds
  /\ dag.targetIdToDependentIds[x] = <<y>>
  /\ dag.targetIdToDependentIds[y] = <<x>>

PairReturned ==
  Done =>
    \A x, y \in AllTargetIds(ClosureDag) :
      (/\ IsMutualPair(ClosureDag, x, y)
       /\ Len(directPackageNames) = 1
       /\ directPackageNames[1] = ClosureDag.targetIdToName[x]
       /\ directPackageNames[1] \in ResolvedNames)
        => /\ Len(targets) = 2
           /\ Range(targets) =
                {[id |-> x, name |-> ClosureDag.targetIdToName[x]],
                 [id |-> y, name |-> ClosureDag.targetIdToName[y]]}

\* C10: computeTransitiveTargets is total: on every dag, cycles and
\* self-loops included, and every seed list the traversal empties its queue
\* and returns without an error; and for a mutual dependency of two nodes
\* seeded with either node it returns exactly the two nodes.
C10_TotalAndPairReturned == ClosureTerminates /\ []PairReturned

\* A call on a dag with a cycle returned.
CycleTraversed ==
  /\ Done
  /\ \E x \in Range(resultTargetIds) :
       x \in UNION {DependentsOf(ClosureDag.targetIdToDependentIds, d) :
                      d \in ReachableFrom(ClosureDag.targetIdToDependentIds,
                                          DependentsOf(ClosureDag.targetIdToDependentIds, x))}

\* C11: the returned set holds no two elements with the same id, whatever the
\* dag and the seed list (duplicate names, duplicate unresolved names, an
\* unresolved name that equals the id of a visited target).
C11_DeduplicatedById ==
  Done =>
    \A i, j \in 1..Len(targets) : targets[i].id = targets[j].id => i = j

\* What does hold: the targets of visited ids are pairwise different in id;
\* two elements share an id only when one of them is a synthetic target.
NamedTargetsDeduplicated ==
  Done =>
    \A i, j \in 1..Len(targets) :
      (targets[i].id = targets[j].id /\ i # j) =>
        (i > Len(targets) - Len(packagesNotInDag) \/ j > Len(targets) - Len(packagesNotInDag))

\* C12: with an empty directPackageNames the call returns the empty set,
\* whatever the dag holds.
C12_EmptySeedsEmptyResult ==
  (Done /\ directPackageNames = <<>>) => targets = <<>>

\* The call with no seed returned on a dag that has a named target with a
\* dependent.
C12_Witness ==
  /\ Done
  /\ directPackageNames = <<>>
  /\ \E x \in DOMAIN ClosureDag.targetIdToDependentIds :
       /\ ClosureDag.targetIdToDependentIds[x] # <<>>
       /\ IsReported(ClosureDag, x)
  /\ targets = <<>>

\* The elements of the returned set that the loop over resultTargetIds added
\* (part_002:343-348); the synthetic targets follow them.
ReportedTargets == SubSeq(targets, 1, Len(targets) - Len(packagesNotInDag))

\* C13: for every visited target id the result contains
\* {id, name: targetIdToName[id]} if and only if targetIdToName has an entry
\* for the id, whatever string the entry holds, the empty string included.
C13_ReportedIffNameEntry ==
  Done =>
    \A r \in Range(resultTargetIds) :
      IF MapHas(ClosureDag.targetIdToName, r)
      THEN [id |-> r, name |-> ClosureDag.targetIdToName[r]] \in Range(ReportedTargets)
      ELSE \A k \in 1..Len(ReportedTargets) : ReportedTargets[k].id # r

\* What does hold: a visited id is reported if and only if its name entry
\* exists and is not the empty string.
ReportedIffTruthyName ==
  Done =>
    \A r \in Range(resultTargetIds) :
      IF IsReported(ClosureDag, r)
      THEN [id |-> r, name |-> ClosureDag.targetIdToName[r]] \in Range(ReportedTargets)
      ELSE \A k \in 1..Len(ReportedTargets) : ReportedTargets[k].id # r

\* C14: after buildHydratedDag every targetId that occurs as a node of the
\* baseline or of an additional snapshot has an entry in targetIdToName; when
\* the node that decides it (the last one folded for the id) carries no
\* targetName, the entry is "ID:" followed by the id, and that placeholder is
\* a key of nameToTargetIds that maps to the id.
C14_EveryNodeNamed ==
  Returned =>
    \A k \in 1..Len(FoldedNodes) :
      LET t == FoldedNodes[k].target.targetId
      IN  /\ MapHas(Dag.targetIdToName, t)
          /\ ((\A j \in (k + 1)..Len(FoldedNodes) : FoldedNodes[j].target.targetId # t)
                /\ FoldedNodes[k].target.targetName = <<>>)
               => /\ Dag.targetIdToName[t] = "ID:" \o t
                  /\ MapHas(Dag.nameToTargetIds, "ID:" \o t)
                  /\ t \in Range(Dag.nameToTargetIds["ID:" \o t])

\* A target that an earlier node named is described last by a node without a
\* targetName, and a dependent that is no node has no name entry.
C14_Witness ==
  /\ Returned
  /\ \E k \in 1..Len(FoldedNodes) :
       LET t == FoldedNodes[k].target.targetId
       IN  /\ FoldedNodes[k].target.targetName = <<>>
           /\ \A j \in (k + 1)..Len(FoldedNodes) : FoldedNodes[j].target.targetId # t
           /\ \E j \in 1..(k - 1) :
                /\ FoldedNodes[j].target.targetId = t
                /\ FoldedNodes[j].target.targetName # <<>>
           /\ Dag.targetIdToName[t] = "ID:" \o t
  /\ \E y \in DOMAIN Dag.targetIdToDependentIds :
       \E x \in Range(Dag.targetIdToDependentIds[y]) : ~MapHas(Dag.targetIdToName, x)

(***************************************************************************)
(* getCachedTargetsForCommits and getCachedTargetsForCommit                *)
(* (get_cached_targets.ts:1-126): the arguments and the storage.           *)
(***************************************************************************)
CommitShaStrings == {"sha1", "sha2"}

Kinds == {"full", "partial"}

\* get_cached_targets.ts:4.
DEFAULT_BATCH_SIZE == 50

\* part_000:136.
CACHED_BUILD_TARGETS_VERSION == 2

\* The batchSize argument: <<>> when the caller leaves it out.
BatchSizeOpts == {<<>>} \cup {<<n>> : n \in 0..MaxBatchSize}

\* get_cached_targets.ts:82, `batchSize = DEFAULT_BATCH_SIZE`.
BatchSizeOf(opt) == IF opt = <<>> THEN DEFAULT_BATCH_SIZE ELSE opt[1]

\* get_cached_targets.ts:40-42, the template literal.
getStorageKey(commitSha, commitKind) ==
  <<"commit-targets/", commitKind, "-", commitSha, ".json">>

\* A keyGenerator of the caller's own.
CallerKey(commitSha, commitKind) == <<commitKind, "/", commitSha>>

KeyGenerators == {"getStorageKey", "CallerKey"}

\* get_cached_targets.ts:55, keyGenerator(commitSha, kind).
GenerateKey(generator, commitSha, commitKind) ==
  IF generator = "getStorageKey" THEN getStorageKey(commitSha, commitKind)
  ELSE CallerKey(commitSha, commitKind)

\* The JSON documents the storage may hold for a commit: the fields the
\* schema (part_000:141-162) distinguishes; targetIds and graph are left out.
\* The documents of the current version in either mode, with and without a
\* baseSha, and a full-dag document of an older version.
Documents(commitSha) ==
  {[version |-> CACHED_BUILD_TARGETS_VERSION, mode |-> m, baseSha |-> b,
    headSha |-> commitSha] : m \in Modes, b \in {<<>>, <<"base">>}}
    \cup {[version |-> 1, mode |-> "full-dag", baseSha |-> <<>>, headSha |-> commitSha]}

\* What storageClient.getObjectOrNull may answer for the key of a commit:
\* null, a rejection, or an object whose data is a string or a Buffer that
\* holds a JSON document or text that is no JSON.
StorageAnswers(commitSha) ==
  {[type |-> "null"], [type |-> "rejects"]}
    \cup {[type |-> "object", encoding |-> e, text |-> <<"garbled">>] :
            e \in {"string", "buffer"}}
    \cup {[type |-> "object", encoding |-> e, text |-> <<"json", d>>] :
            e \in {"string", "buffer"}, d \in Documents(commitSha)}

\* part_000:141-162, CachedBuildTargetsSchema.safeParse: the issues found.
SchemaIssues(doc) ==
  (IF doc.version # CACHED_BUILD_TARGETS_VERSION THEN <<"version">> ELSE <<>>)
    \o (IF doc.mode = "filtered" /\ doc.baseSha = <<>> THEN <<"baseSha">> ELSE <<>>)

\* part_000:141-162, the data of a successful safeParse: keys the schema of
\* the mode does not name are stripped.
SchemaData(doc) ==
  [version |-> doc.version, mode |-> doc.mode,
   baseSha |-> IF doc.mode = "filtered" THEN doc.baseSha ELSE <<>>,
   headSha |-> doc.headSha]

\* Mutant of Settle: the decoded JSON is returned without schema validation.
Settle_unvalidated(commitSha, answer) ==
  IF answer.type = "rejects"
  THEN [status |-> "rejected", reason |-> [name |-> "StorageError"]]
  ELSE IF answer.type = "null"
  THEN [status |-> "rejected",
        reason |-> [name |-> "CachedTargetsNotFoundError", commitSha |-> commitSha]]
  ELSE IF answer.text[1] # "json"
  THEN [status |-> "rejected", reason |-> [name |-> "SyntaxError"]]
  ELSE [status |-> "fulfilled", value |-> answer.text[2]]

\* get_cached_targets.ts:56-74: how the promise of getCachedTargetsForCommit
\* settles once the storage has answered.
Settle(commitSha, answer) ==
  IF answer.type = "rejects"
  THEN [status |-> "rejected", reason |-> [name |-> "StorageError"]]
  ELSE IF answer.type = "null"
  THEN [status |-> "rejected",
        reason |-> [name |-> "CachedTargetsNotFoundError", commitSha |-> commitSha]]
  ELSE IF answer.text[1] # "json"
  THEN [status |-> "rejected", reason |-> [name |-> "SyntaxError"]]
  ELSE IF SchemaIssues(answer.text[2]) # <<>>
  THEN [status |-> "rejected",
        reason |-> [name |-> "InvalidCachedTargetsError", commitSha |-> commitSha,
                    error |-> SchemaIssues(answer.text[2])]]
  ELSE [status |-> "fulfilled", value |-> SchemaData(answer.text[2])]

Min(a, b) == IF a <= b THEN a ELSE b

\* Mutant of Slice: the end of the slice is ignored.
Slice_toEnd(array, from, to) == SubSeq(array, from + 1, Len(array))

\* Array.prototype.slice(from, to) with 0 <= from <= to.
Slice(array, from, to) == SubSeq(array, from + 1, Min(to, Len(array)))

\* Mutant of CollectResults: only the first failed commit is recorded.
RECURSIVE CollectResults_firstFailure(_, _)
CollectResults_firstFailure(collected, i) ==
  IF i > Len(results) THEN collected
  ELSE CollectResults_firstFailure(
         IF results[i].status = "fulfilled"
         THEN [collected EXCEPT
                 !.targetMap = MapSet(collected.targetMap, commitShas[i], results[i].value)]
         ELSE IF collected.failedShas = <<>>
         THEN [collected EXCEPT !.failedShas = <<commitShas[i]>>]
         ELSE collected,
         i + 1)

\* get_cached_targets.ts:109-119, the loop over results from position i on.
RECURSIVE CollectResults(_, _)
CollectResults(collected, i) ==
  IF i > Len(results) THEN collected
  ELSE CollectResults(
         IF results[i].status = "fulfilled"
         THEN [collected EXCEPT
                 !.targetMap = MapSet(collected.targetMap, commitShas[i], results[i].value)]
         ELSE [collected EXCEPT !.failedShas = Append(collected.failedShas, commitShas[i])],
         i + 1)

(***************************************************************************)
(* getCachedTargetsForCommits, statement by statement.  cursor[1] is the   *)
(* position of the running chunk in chunkedInputs, cursor[2] the i of      *)
(* chunk().                                                                *)
(***************************************************************************)

\* get_cached_targets.ts:77-94 and :7: the call is entered with a non-empty
\* list of commits, the first of them called sha1, and chunk() starts.
CallGetCachedTargetsForCommits ==
  /\ pc = "idle"
  /\ \E shas \in SeqsUpTo(CommitShaStrings, MaxCommits) \ {<<>>} :
       shas[1] = "sha1" /\ commitShas' = shas
  /\ \E k \in Kinds : kind' = k
  /\ \E size \in BatchSizeOpts : batchSize' = BatchSizeOf(size)
  /\ \E generator \in KeyGenerators : keyGenerator' = generator
  /\ chunkedInputs' = <<>>
  /\ results' = <<>>
  /\ pc' = "chunk"
  /\ cursor' = <<0, 0>>
  /\ UNCHANGED <<chunkResults, storageCalls, targetMap, failedShas, thrown>>
  /\ UNCHANGED <<baselineTargets, additionalTargets, targetIdToName, nameToTargetIds,
                 targetIdToDependentIds, error, hydratedDag>>
  /\ UNCHANGED closureVars

\* get_cached_targets.ts:8-10, one iteration of the loop of chunk().  With a
\* size of 0 the loop never ends; the model follows it for one chunk more
\* than there are commits.
ChunkStep ==
  /\ pc = "chunk"
  /\ cursor[2] < Len(commitShas)
  /\ Len(chunkedInputs) <= Len(commitShas)
  /\ chunkedInputs' =
       Append(chunkedInputs, Slice(commitShas, cursor[2], cursor[2] + batchSize))
  /\ cursor' = <<0, cursor[2] + batchSize>>
  /\ UNCHANGED <<pc, commitShas, kind, batchSize, keyGenerator, results, chunkResults,
                 storageCalls, targetMap, failedShas, thrown>>
  /\ UNCHANGED <<baselineTargets, additionalTargets, targetIdToName, nameToTargetIds,
                 targetIdToDependentIds, error, hydratedDag>>
  /\ UNCHANGED closureVars

\* get_cached_targets.ts:8 and :11, chunk() returns.
ChunkReturn ==
  /\ pc = "chunk"
  /\ cursor[2] >= Len(commitShas)
  /\ pc' = "batches"
  /\ cursor' = <<1, 0>>
  /\ UNCHANGED fetchVars
  /\ UNCHANGED <<baselineTargets, additionalTargets, targetIdToName, nameToTargetIds,
                 targetIdToDependentIds, error, hydratedDag>>
  /\ UNCHANGED closureVars

\* get_cached_targets.ts:96-105 and :55-56: every getCachedTargetsForCommit of
\* the chunk runs up to its await, that is, calls the storage with its key.
StartBatch ==
  /\ pc = "batches"
  /\ cursor[1] <= Len(chunkedInputs)
  /\ LET commitShaChunk == chunkedInputs[cursor[1]]
     IN  /\ chunkResults' = [p \in 1..Len(commitShaChunk) |-> [status |-> "pending"]]
         /\ storageCalls' =
              storageCalls \o
                [p \in 1..Len(commitShaChunk) |->
                   [key |-> GenerateKey(keyGenerator, commitShaChunk[p], kind),
                    commitSha |-> commitShaChunk[p],
                    chunk |-> cursor[1], position |-> p,
                    result |-> [status |-> "pending"]]]
  /\ pc' = "await"
  /\ UNCHANGED <<cursor, commitShas, kind, batchSize, keyGenerator, chunkedInputs,
                 results, targetMap, failedShas, thrown>>
  /\ UNCHANGED <<baselineTargets, additionalTargets, targetIdToName, nameToTargetIds,
                 targetIdToDependentIds, error, hydratedDag>>
  /\ UNCHANGED closureVars

\* The storage answers the pending call c, and get_cached_targets.ts:56-74
\* settles the promise of that commit.
AnswerCall(c, answer) ==
  /\ pc = "await"
  /\ storageCalls[c].result.status = "pending"
  /\ chunkResults' =
       [chunkResults EXCEPT ![storageCalls[c].position] =
          Settle(storageCalls[c].commitSha, answer)]
  /\ storageCalls' =
       [storageCalls EXCEPT ![c].result = Settle(storageCalls[c].commitSha, answer)]
  /\ UNCHANGED <<pc, cursor, commitShas, kind, batchSize, keyGenerator, chunkedInputs,
                 results, targetMap, failedShas, thrown>>
  /\ UNCHANGED <<baselineTargets, additionalTargets, targetIdToName, nameToTargetIds,
                 targetIdToDependentIds, error, hydratedDag>>
  /\ UNCHANGED closureVars

\* The storage answers one of the pending calls, in any order.
StorageAnswer ==
  \E c \in 1..Len(storageCalls) :
    \E answer \in StorageAnswers(storageCalls[c].commitSha) : AnswerCall(c, answer)

\* get_cached_targets.ts:97 and :106: Promise.allSettled resolves once no
\* promise of the chunk is pending, and its results are pushed.
BatchSettled ==
  /\ pc = "await"
  /\ \A p \in 1..Len(chunkResults) : chunkResults[p].status # "pending"
  /\ results' = results \o chunkResults
  /\ chunkResults' = <<>>
  /\ pc' = "batches"
  /\ cursor' = <<cursor[1] + 1, 0>>
  /\ UNCHANGED <<commitShas, kind, batchSize, keyGenerator, chunkedInputs,
                 storageCalls, targetMap, failedShas, thrown>>
  /\ UNCHANGED <<baselineTargets, additionalTargets, targetIdToName, nameToTargetIds,
                 targetIdToDependentIds, error, hydratedDag>>
  /\ UNCHANGED closureVars

\* get_cached_targets.ts:96 and :107-119: the chunks are exhausted and the
\* results are sorted into targetMap and failedShas.
CollectAll ==
  /\ pc = "batches"
  /\ cursor[1] > Len(chunkedInputs)
  /\ LET collected == CollectResults([targetMap |-> EmptyMap, failedShas |-> <<>>], 1)
     IN  /\ targetMap' = collected.targetMap
         /\ failedShas' = collected.failedShas
  /\ pc' = "collected"
  /\ UNCHANGED <<cursor, commitShas, kind, batchSize, keyGenerator, chunkedInputs,
                 results, chunkResults, storageCalls, thrown>>
  /\ UNCHANGED <<baselineTargets, additionalTargets, targetIdToName, nameToTargetIds,
                 targetIdToDependentIds, error, hydratedDag>>
  /\ UNCHANGED closureVars

\* get_cached_targets.ts:121-123.
ThrowFailedToFetch ==
  /\ pc = "collected"
  /\ Len(failedShas) > 0
  /\ thrown' = <<[name |-> "FailedToFetchCachedTargetsError", failedShas |-> failedShas]>>
  /\ pc' = "fetch_threw"
  /\ UNCHANGED <<cursor, commitShas, kind, batchSize, keyGenerator, chunkedInputs,
                 results, chunkResults, storageCalls, targetMap, failedShas>>
  /\ UNCHANGED <<baselineTargets, additionalTargets, targetIdToName, nameToTargetIds,
                 targetIdToDependentIds, error, hydratedDag>>
  /\ UNCHANGED closureVars

\* get_cached_targets.ts:121 and :125.
ReturnTargetMap ==
  /\ pc = "collected"
  /\ ~(Len(failedShas) > 0)
  /\ pc' = "fetch_returned"
  /\ UNCHANGED fetchVars
  /\ UNCHANGED cursor
  /\ UNCHANGED <<baselineTargets, additionalTargets, targetIdToName, nameToTargetIds,
                 targetIdToDependentIds, error, hydratedDag>>
  /\ UNCHANGED closureVars

NextFetch ==
  \/ CallGetCachedTargetsForCommits
  \/ ChunkStep
  \/ ChunkReturn
  \/ StartBatch
  \/ StorageAnswer
  \/ BatchSettled
  \/ CollectAll
  \/ ThrowFailedToFetch
  \/ ReturnTargetMap

SpecFetch == InitHydrate /\ [][NextFetch]_vars

(***************************************************************************)
(* Properties of getCachedTargetsForCommits.                               *)
(***************************************************************************)
FetchThrew == pc = "fetch_threw"

FetchReturned == pc = "fetch_returned"

\* The commits at the positions from i on whose own storage call was rejected.
RECURSIVE FailedCommitsFrom(_)
FailedCommitsFrom(i) ==
  IF i > Len(commitShas) THEN <<>>
  ELSE (IF storageCalls[i].result.status = "rejected" THEN <<commitShas[i]>> ELSE <<>>)
         \o FailedCommitsFrom(i + 1)

\* C15: getCachedTargetsForCommits never short-circuits: when it ends, the
\* storage was called for every listed commit, in input order, and every
\* call has settled, also after a failure in an earlier batch; it throws if
\* and only if some fetch was rejected, and the FailedToFetchCachedTargetsError
\* then carries in failedShas exactly the commits whose own fetch was rejected,
\* in input order.
C15_AllFailuresCollected ==
  (FetchThrew \/ FetchReturned) =>
    /\ Len(storageCalls) = Len(commitShas)
    /\ \A c \in 1..Len(storageCalls) :
         /\ storageCalls[c].commitSha = commitShas[c]
         /\ storageCalls[c].result.status \in {"fulfilled", "rejected"}
    /\ FetchThrew <=> (\E c \in 1..Len(storageCalls) :
                         storageCalls[c].result.status = "rejected")
    /\ FetchThrew =>
         thrown = <<[name |-> "FailedToFetchCachedTargetsError",
                     failedShas |-> FailedCommitsFrom(1)]>>
    /\ FetchReturned => thrown = <<>>

\* A fetch of the first batch and a fetch of a later batch failed, a fetch
\* between them succeeded, and both failed commits are reported.
C15_Witness ==
  /\ FetchThrew
  /\ Len(chunkedInputs) >= 2
  /\ Len(thrown[1].failedShas) = 2
  /\ \E c1, c2, c3 \in 1..Len(storageCalls) :
       /\ c1 < c2 /\ c2 < c3
       /\ storageCalls[c1].chunk = 1
       /\ storageCalls[c3].chunk > 1
       /\ storageCalls[c1].result.status = "rejected"
       /\ storageCalls[c2].result.status = "fulfilled"
       /\ storageCalls[c3].result.status = "rejected"
       /\ storageCalls[c1].result.reason.name # storageCalls[c3].result.reason.name

RECURSIVE Concatenated(_)
Concatenated(chunks) ==
  IF chunks = <<>> THEN <<>> ELSE Head(chunks) \o Concatenated(Tail(chunks))

\* The storage calls that have not been answered yet.
InFlight == {c \in 1..Len(storageCalls) : storageCalls[c].result.status = "pending"}

\* C16: with batchSize >= 1 the commits are split into consecutive batches of
\* at most batchSize; no fetch of a batch starts before every fetch of the
\* batches before it has settled; so, whatever the order of the storage's
\* answers, never more than batchSize storage fetches are in flight.
C16_BatchesBoundConcurrency ==
  batchSize >= 1 =>
    /\ \A k \in 1..Len(chunkedInputs) :
         /\ Len(chunkedInputs[k]) <= batchSize
         /\ Len(chunkedInputs[k]) >= 1
         /\ k < Len(chunkedInputs) => Len(chunkedInputs[k]) = batchSize
    /\ (pc = "chunk") =>
         Concatenated(chunkedInputs) = SubSeq(commitShas, 1, Min(cursor[2], Len(commitShas)))
    /\ (pc \in {"batches", "await", "collected", "fetch_threw", "fetch_returned"}) =>
         Concatenated(chunkedInputs) = commitShas
    /\ \A c, d \in 1..Len(storageCalls) :
         storageCalls[d].chunk < storageCalls[c].chunk => d \notin InFlight
    /\ Cardinality(InFlight) <= batchSize

\* Two fetches of the first batch were in flight, the storage has answered
\* the second of them first, and a further commit waits for its batch.
C16_Witness ==
  /\ pc = "await"
  /\ batchSize = 2
  /\ cursor[1] = 1
  /\ Len(chunkedInputs) = 2
  /\ Len(storageCalls) = 2
  /\ InFlight = {1}

\* The position of the last storage call for the commit sha.
LastCallFor(sha) ==
  CHOOSE c \in 1..Len(storageCalls) :
    /\ storageCalls[c].commitSha = sha
    /\ \A d \in (c + 1)..Len(storageCalls) : storageCalls[d].commitSha # sha

\* When the call returns, the storage was called exactly once per listed
\* commit, with the key of that commit, and the map has one entry per
\* distinct sha, holding the snapshot that was fetched for that sha.
OneFetchPerCommit ==
  FetchReturned =>
    /\ Len(storageCalls) = Len(commitShas)
    /\ \A c \in 1..Len(storageCalls) :
         /\ storageCalls[c].commitSha = commitShas[c]
         /\ storageCalls[c].key = GenerateKey(keyGenerator, commitShas[c], kind)
         /\ storageCalls[c].result.status = "fulfilled"
    /\ DOMAIN targetMap = Range(commitShas)
    /\ \A sha \in DOMAIN targetMap :
         /\ targetMap[sha] = storageCalls[LastCallFor(sha)].result.value
         /\ targetMap[sha].headSha = sha

\* chunk() advances: every iteration of its loop moves i forward, so the
\* loop ends and the fetches are issued.
ChunkAdvances == [][(pc = "chunk" /\ pc' = "chunk") => cursor'[2] > cursor[2]]_vars

\* C17: when every fetch succeeds, getCachedTargetsForCommits issues exactly
\* one storage fetch per listed commit, whatever the batch size, and returns
\* a map with one entry per distinct sha whose value is the snapshot fetched
\* for that sha.
C17_OneFetchPerCommitAnyBatchSize == ChunkAdvances /\ []OneFetchPerCommit

\* What does hold: the same for every batch size of at least 1.
ChunkAdvancesFromOne ==
  [][(pc = "chunk" /\ pc' = "chunk" /\ batchSize >= 1) => cursor'[2] > cursor[2]]_vars

\* A call in three batches returned a map with two entries.
ReturnedInBatches ==
  /\ FetchReturned
  /\ Len(chunkedInputs) = 3
  /\ Cardinality(DOMAIN targetMap) = 2

\* A document that conforms to CachedBuildTargetsSchema, in the fields kept.
IsValidSnapshot(doc) ==
  /\ doc.version = 2
  /\ doc.mode \in {"full-dag", "filtered"}
  /\ doc.mode = "filtered" => doc.baseSha # <<>>

\* How the promise of the commit of call c has settled in the next state,
\* given the storage's answer.
Classified(c, answer) ==
  LET sha == storageCalls[c].commitSha
      settled == chunkResults'[storageCalls[c].position]
  IN  /\ answer.type = "null" =>
           /\ settled.status = "rejected"
           /\ settled.reason = [name |-> "CachedTargetsNotFoundError", commitSha |-> sha]
      /\ (answer.type = "object" /\ answer.text[1] = "json"
            /\ ~IsValidSnapshot(answer.text[2])) =>
           /\ settled.status = "rejected"
           /\ settled.reason.name = "InvalidCachedTargetsError"
           /\ settled.reason.commitSha = sha
           /\ settled.reason.error # <<>>
      /\ settled.status = "fulfilled" =>
           /\ answer.type = "object"
           /\ answer.text[1] = "json"
           /\ IsValidSnapshot(answer.text[2])
           /\ IsValidSnapshot(settled.value)
           /\ settled.value.headSha = answer.text[2].headSha
           /\ settled.value.mode = answer.text[2].mode

\* C18: getCachedTargetsForCommit fetches the key keyGenerator(commitSha, kind),
\* by default commit-targets/{kind}-{commitSha}.json; a null answer makes it
\* fail with CachedTargetsNotFoundError carrying commitSha; decoded JSON that
\* fails schema validation makes it fail with InvalidCachedTargetsError
\* carrying commitSha and the validation error; only a schema-valid snapshot
\* is ever returned.
C18_OutcomesClassified ==
  /\ [](\A c \in 1..Len(storageCalls) :
          storageCalls[c].key =
            IF keyGenerator = "getStorageKey"
            THEN <<"commit-targets/", kind, "-", storageCalls[c].commitSha, ".json">>
            ELSE CallerKey(storageCalls[c].commitSha, kind))
  /\ [][(pc = "await" /\ Len(storageCalls') = Len(storageCalls)) =>
          \A c \in 1..Len(storageCalls) :
            storageCalls'[c] # storageCalls[c] =>
              \A answer \in StorageAnswers(storageCalls[c].commitSha) :
                AnswerCall(c, answer) => Classified(c, answer)]_vars
  /\ [](\A i \in 1..Len(results) :
          results[i].status = "fulfilled" => IsValidSnapshot(results[i].value))

\* One call has met a missing object, an invalid document and a valid one
\* under the default key.
C18_Witness ==
  /\ keyGenerator = "getStorageKey"
  /\ \E i, j, k \in 1..Len(results) :
       /\ results[i].status = "rejected"
       /\ results[i].reason.name = "CachedTargetsNotFoundError"
       /\ results[j].status = "rejected"
       /\ results[j].reason.name = "InvalidCachedTargetsError"
       /\ results[k].status = "fulfilled"


(***************************************************************************)
(* The two core operations as functions of their arguments, and the        *)
(* pipeline of the README: the dag that buildHydratedDag returned is       *)
(* passed to computeTransitiveTargets.                                     *)
(***************************************************************************)

\* part_002:308-318, the loop over directPackageNames.
RECURSIVE ResolveNames(_, _, _)
ResolveNames(names, n2t, acc) ==
  IF names = <<>> THEN acc
  ELSE LET targetIds == LookupTargetIds(n2t, Head(names))
       IN  ResolveNames(
             Tail(names), n2t,
             IF targetIds # <<>>
             THEN [acc EXCEPT !.directTargetIds = @ \o targetIds[1]]
             ELSE [acc EXCEPT !.packagesNotInDag = Append(@, Head(names))])

\* part_002:324-340, the while loop: the visited ids in insertion order.
RECURSIVE Traverse(_, _, _, _)
Traverse(queue, done, visited, t2d) ==
  IF queue = <<>> THEN visited
  ELSE IF IsFalsy(Head(queue)) \/ Head(queue) \in done
  THEN Traverse(Tail(queue), done, visited, t2d)
  ELSE LET dependentIds == LookupDependentIds(t2d, Head(queue))
           marked == MarkProcessed(done, Head(queue))
       IN  Traverse(IF dependentIds # <<>>
                    THEN PushUnprocessed(Tail(queue), dependentIds[1], marked)
                    ELSE Tail(queue),
                    marked, SetAdd(visited, Head(queue)), t2d)

\* part_002:298-355, the returned Set<Target> in insertion order.
computeTransitiveTargets(names, dag) ==
  LET resolved == ResolveNames(names, dag.nameToTargetIds,
                               [directTargetIds |-> <<>>, packagesNotInDag |-> <<>>])
  IN  SyntheticTargets(
        NamedTargets(<<>>,
                     Traverse(resolved.directTargetIds, {}, <<>>,
                              dag.targetIdToDependentIds),
                     dag.targetIdToName),
        resolved.packagesNotInDag)

\* README.md:26-47: buildHydratedDag is entered with the snapshots fetched
\* for the baseline and the PR commits, of at most MaxSize - 1 together.
CallPipeline ==
  /\ pc = "idle"
  /\ \E i \in 0..(MaxSize - 1) :
       /\ \E m \in Modes, g \in GraphsBySize[i + 1] :
            baselineTargets' = [mode |-> m, headSha |-> Sha(0), graph |-> g]
       /\ PassAdditional(<<>>, MaxSize - 1 - i)
  /\ pc' = "check"
  /\ UNCHANGED <<cursor, targetIdToName, nameToTargetIds, targetIdToDependentIds,
                 error, hydratedDag>>
  /\ UNCHANGED closureVars
  /\ UNCHANGED fetchVars

\* README.md:26-47 with a rename: the baseline holds one node, with one
\* dependent, and the snapshot of the PR commit holds the same targetId under
\* another name; z.string() (part_000:115-117) admits the empty string for
\* the id and for either name.
CallPipelineRenamed ==
  /\ pc = "idle"
  /\ \E id \in {"t", ""}, old \in {<<"old">>, <<"">>}, new \in {<<>>, <<"new">>, <<"">>} :
       /\ baselineTargets' =
            [mode |-> "full-dag", headSha |-> Sha(0),
             graph |-> <<[target |-> [targetId |-> id, targetName |-> old],
                          dependencies |-> <<>>, dependents |-> <<"d">>]>>]
       /\ additionalTargets' =
            <<[mode |-> "filtered", headSha |-> Sha(1),
               graph |-> <<[target |-> [targetId |-> id, targetName |-> new],
                            dependencies |-> <<>>, dependents |-> <<>>]>>]>>
  /\ pc' = "check"
  /\ UNCHANGED <<cursor, targetIdToName, nameToTargetIds, targetIdToDependentIds,
                 error, hydratedDag>>
  /\ UNCHANGED closureVars
  /\ UNCHANGED fetchVars

\* README.md:44-54: computeTransitiveTargets is called with the dag that
\* buildHydratedDag has returned and no name, a name of the dag or the empty
\* string, or that followed by a name that is not in the dag or by itself.
ChainClosure ==
  /\ pc = "returned"
  /\ \/ directPackageNames' = <<>>
     \/ \E name \in (DOMAIN hydratedDag[1].nameToTargetIds) \cup {""} :
          \E rest \in {<<>>, <<"a">>, <<name>>} :
            directPackageNames' = <<name>> \o rest
  /\ packagesNotInDag' = <<>>
  /\ directTargetIds' = <<>>
  /\ pc' = "names"
  /\ cursor' = <<0, 1>>
  /\ UNCHANGED <<baselineTargets, additionalTargets, targetIdToName, nameToTargetIds,
                 targetIdToDependentIds, error, hydratedDag>>
  /\ UNCHANGED fetchVars
  /\ UNCHANGED <<resultTargetIds, toProcess, processed, targets>>

NextPipeline ==
  \/ CallPipeline
  \/ CallPipelineRenamed
  \/ ThrowNotFullDag
  \/ CheckMode
  \/ NameBaselineNode
  \/ NameAdditionalNode
  \/ EdgeBaselineNode
  \/ EdgeAdditionalNode
  \/ ReturnHydratedDag
  \/ ChainClosure
  \/ ResolveName
  \/ NameNotInDag
  \/ StartTraversal
  \/ SkipTarget
  \/ VisitTarget
  \/ EmitNamedTargets
  \/ ReturnTargets

SpecPipeline == InitHydrate /\ [][NextPipeline]_vars

\* A call of computeTransitiveTargets is running or has returned.
InClosure == pc \in {"names", "traverse", "synthetic", "done"}

\* One step of either operation leaves the arguments of the running calls
\* as they were.
ArgumentsKept ==
  /\ pc # "idle" =>
       /\ baselineTargets' = baselineTargets
       /\ additionalTargets' = additionalTargets
  /\ InClosure =>
       /\ hydratedDag' = hydratedDag
       /\ directPackageNames' = directPackageNames

\* The dag that buildHydratedDag returned is the function of its arguments,
\* also while and after computeTransitiveTargets works on it.
HydratedDagIsFunctionOfArguments ==
  /\ (Returned \/ InClosure) =>
       hydratedDag = buildHydratedDag(baselineTargets, additionalTargets)
  /\ Threw => buildHydratedDag(baselineTargets, additionalTargets) = <<>>

\* The returned targets are the function of the arguments.
TargetsAreFunctionOfArguments ==
  Done => targets = computeTransitiveTargets(directPackageNames, hydratedDag[1])

UnnamedIds(dag) == AllTargetIds(dag) \ DOMAIN dag.targetIdToName

\* The ids reachable from ids along t2d without passing through an id of avoid.
RECURSIVE ReachableAvoiding(_, _, _)
ReachableAvoiding(t2d, ids, avoid) ==
  LET open == ids \ avoid
      next == ids \cup UNION {DependentsOf(t2d, x) : x \in open}
  IN  IF next = ids THEN ids ELSE ReachableAvoiding(t2d, next, avoid)

\* The named ids that the seeds reach only through an id without a name.
ReachedOnlyViaUnnamed ==
  (ReachableFromSeeds \cap DOMAIN ClosureDag.targetIdToName)
    \ ReachableAvoiding(ClosureDag.targetIdToDependentIds, SeedIds, UnnamedIds(ClosureDag))

\* C20: a reachable target id with no entry in targetIdToName is visited but
\* not reported, and the traversal continues through it: every named target
\* that is reachable only via such an unnamed id is in the result, while the
\* unnamed id itself is not reported.
C20_UnnamedIdTraversedNotReported ==
  Done =>
    /\ \A u \in ReachableFromSeeds \cap UnnamedIds(ClosureDag) :
         /\ u \in Range(resultTargetIds)
         /\ \A k \in 1..Len(ReportedTargets) : ReportedTargets[k].id # u
    /\ \A x \in ReachedOnlyViaUnnamed :
         [id |-> x, name |-> ClosureDag.targetIdToName[x]] \in Range(targets)

\* What the code does: C20 for the unnamed ids and the names that are not
\* the empty string.
UnnamedTruthyIdTraversed ==
  Done =>
    /\ \A u \in ReachableFromSeeds \cap UnnamedIds(ClosureDag) :
         /\ \A k \in 1..Len(ReportedTargets) : ReportedTargets[k].id # u
         /\ u \in VisitableFrom(ClosureDag.targetIdToDependentIds, SeedIds) =>
              u \in Range(resultTargetIds)
    /\ \A x \in ReachedOnlyViaUnnamed :
         (/\ x \in VisitableFrom(ClosureDag.targetIdToDependentIds, SeedIds)
          /\ ~IsFalsy(ClosureDag.targetIdToName[x])) =>
           [id |-> x, name |-> ClosureDag.targetIdToName[x]] \in Range(targets)

\* A named target was returned that the seed reaches only through a visited
\* id without a name.
UnnamedIdTraversed ==
  /\ Done
  /\ "u" \in Range(resultTargetIds) \cap UnnamedIds(ClosureDag)
  /\ "c" \in ReachedOnlyViaUnnamed
  /\ "c" \in ReturnedIds


\* The ids that one iteration of the while loop has pushed onto the queue.
Pushed ==
  IF toProcess = <<>> THEN <<>>
  ELSE SubSeq(toProcess', Len(toProcess), Len(toProcess'))

\* One step of the traversal: the visited set only grows, by the id taken off
\* the queue, which was not in it and is visited and expanded in this step
\* alone, and no id that is in the visited set is pushed.
VisitedOnce ==
  pc = "traverse" =>
    /\ processed \subseteq processed'
    /\ processed' # processed =>
         /\ Head(toProcess) \notin processed
         /\ processed' = processed \cup {Head(toProcess)}
         /\ resultTargetIds' = Append(resultTargetIds, Head(toProcess))
    /\ processed' = processed => resultTargetIds' = resultTargetIds
    /\ \A k \in 1..Len(Pushed) : Pushed[k] \notin processed'

\* The visited ids are listed once each.
NoIdVisitedTwice ==
  (pc \in {"traverse", "synthetic", "done"}) =>
    /\ Range(resultTargetIds) = processed
    /\ Cardinality(processed) = Len(resultTargetIds)

\* C21: during the traversal each target id is marked visited and expanded at
\* most once, however many paths, duplicate seeds or cycles lead to it; the
\* visited set only grows, and an id that is in the visited set is never
\* added to the work queue again.
C21_VisitedAtMostOnce == [][VisitedOnce]_vars /\ []NoIdVisitedTwice

\* A single seed has reached three ids, and the id at the head of the queue
\* has been visited before: a second path led to it.
C21_Witness ==
  /\ pc = "traverse"
  /\ Len(directPackageNames) = 1
  /\ Cardinality(processed) = 3
  /\ toProcess # <<>>
  /\ Head(toProcess) \in processed


\* C22: buildHydratedDag adds no spurious edge: for every key Y and every X in
\* targetIdToDependentIds[Y], some folded snapshot has a node Y that lists X
\* among its dependents, or an additional snapshot has a node X that declares
\* the dependency Y; and every targetId that occurs as a node of a folded
\* snapshot is a key, with an empty set when nothing depends on it.
C22_NoSpuriousEdge ==
  Returned =>
    /\ \A y \in DOMAIN Dag.targetIdToDependentIds :
         \A x \in Range(Dag.targetIdToDependentIds[y]) :
           ListedAsDependent(y, x) \/ DeclaredByAdditional(y, x)
    /\ \A y \in NodeIds(FoldedNodes) :
         /\ MapHas(Dag.targetIdToDependentIds, y)
         /\ (\A x \in TargetIds : ~ListedAsDependent(y, x) /\ ~DeclaredByAdditional(y, x))
              => Dag.targetIdToDependentIds[y] = <<>>

\* The result has the key of a node on which nothing depends, with the empty
\* set, and an edge that only the dependency declared by a node of an
\* additional snapshot gives.
C22_Witness ==
  /\ Returned
  /\ \E y \in NodeIds(FoldedNodes) : Dag.targetIdToDependentIds[y] = <<>>
  /\ \E y \in DOMAIN Dag.targetIdToDependentIds :
       \E x \in Range(Dag.targetIdToDependentIds[y]) :
         DeclaredByAdditional(y, x) /\ ~ListedAsDependent(y, x)


\* The folded snapshots in the order of folding.
FoldedSnapshots == <<baselineTargets>> \o additionalTargets

\* Every id with a name is in the set of that name, and every id in a set of
\* nameToTargetIds has a name.
NameTablesForward(dag) ==
  /\ \A t \in DOMAIN dag.targetIdToName :
       /\ MapHas(dag.nameToTargetIds, dag.targetIdToName[t])
       /\ t \in Range(dag.nameToTargetIds[dag.targetIdToName[t]])
  /\ \A n \in DOMAIN dag.nameToTargetIds :
       Range(dag.nameToTargetIds[n]) \subseteq DOMAIN dag.targetIdToName

\* Every id in the set of a name is currently named so.
NameTablesConverse(dag) ==
  \A n \in DOMAIN dag.nameToTargetIds :
    \A t \in Range(dag.nameToTargetIds[n]) : dag.targetIdToName[t] = n

\* Two different snapshots hold a node of one targetId under different names.
RenamedBetweenSnapshots ==
  \E i, j \in 1..Len(FoldedSnapshots) :
    /\ i < j
    /\ \E p \in Range(FoldedSnapshots[i].graph), q \in Range(FoldedSnapshots[j].graph) :
         /\ p.target.targetId = q.target.targetId
         /\ TargetNameOf(p) # TargetNameOf(q)

\* Two folded nodes, of one snapshot or of two, hold one targetId under
\* different names.
RenamedAmongNodes ==
  \E k, l \in 1..Len(FoldedNodes) :
    /\ FoldedNodes[k].target.targetId = FoldedNodes[l].target.targetId
    /\ TargetNameOf(FoldedNodes[k]) # TargetNameOf(FoldedNodes[l])

\* C23: for every T with targetIdToName[T] = n, nameToTargetIds[n] contains T,
\* and every id in a nameToTargetIds set has an entry in targetIdToName; the
\* converse holds exactly when no target was renamed between snapshots.
C23_NameTablesConsistent ==
  Returned =>
    /\ NameTablesForward(Dag)
    /\ NameTablesConverse(Dag) <=> ~RenamedBetweenSnapshots

\* C23 amended: the converse holds exactly when no targetId occurs under two
\* different names among the folded nodes, be it in two snapshots or twice in
\* the graph of one.
C23_ConverseIffNoTwoNames ==
  Returned =>
    /\ NameTablesForward(Dag)
    /\ NameTablesConverse(Dag) <=> ~RenamedAmongNodes

\* One snapshot holds a targetId twice under different names, no two
\* snapshots do, and the set of the earlier name still holds the id.
C23_Witness ==
  /\ Returned
  /\ RenamedAmongNodes
  /\ ~RenamedBetweenSnapshots
  /\ ~NameTablesConverse(Dag)


\* The baseline nodes whose targetId a later snapshot holds as well and whose
\* name is not the one the hydrated dag has for the id.
RenamedBaselineNodes ==
  {node \in Range(baselineTargets.graph) :
     /\ node.target.targetId \in NodeIds(AdditionalNodes)
     /\ TargetNameOf(node) # ClosureDag.targetIdToName[node.target.targetId]}

\* The call seeded with name has resolved it to the renamed target of node,
\* traversed its dependents and reported it under its new name, and the old
\* name gave no synthetic target.
ResolvedAcrossRename(node, name) ==
  LET t == node.target.targetId
      old == TargetNameOf(node)
      new == ClosureDag.targetIdToName[t]
  IN  name \in Range(directPackageNames) =>
        /\ t \in Range(resultTargetIds)
        /\ DependentsOf(ClosureDag.targetIdToDependentIds, t) \subseteq Range(resultTargetIds)
        /\ [id |-> t, name |-> new] \in Range(targets)
        /\ old \notin Range(packagesNotInDag)
        /\ [id |-> old, name |-> old] \notin Range(targets)

\* C24: if the baseline names target T as a and a later snapshot names the
\* same targetId as b, computeTransitiveTargets on the hydrated dag seeded
\* with a, and likewise seeded with b, resolves to T, traverses T's
\* dependents and reports {id: T, name: b}; a is not treated as an
\* unresolved package and yields no synthetic {id: a, name: a}.
C24_RenameEndToEnd ==
  Done =>
    \A node \in RenamedBaselineNodes :
      /\ ResolvedAcrossRename(node, TargetNameOf(node))
      /\ ResolvedAcrossRename(node, ClosureDag.targetIdToName[node.target.targetId])

\* What the code does: C24 for the target ids and the new names that are not
\* the empty string.
RenameEndToEndWhenTruthy ==
  Done =>
    \A node \in RenamedBaselineNodes :
      (/\ ~IsFalsy(node.target.targetId)
       /\ ~IsFalsy(ClosureDag.targetIdToName[node.target.targetId])) =>
        /\ ResolvedAcrossRename(node, TargetNameOf(node))
        /\ ResolvedAcrossRename(node, ClosureDag.targetIdToName[node.target.targetId])

\* The call seeded with the old name alone has reported the renamed target
\* under its new name.
RenamedTargetReported ==
  /\ Done
  /\ directPackageNames = <<"old">>
  /\ targets = <<[id |-> "t", name |-> "new"]>>
  /\ Range(resultTargetIds) = {"t", "d"}


\* The ids of a returned Set<Target>.
IdsOf(set) == {set[k].id : k \in 1..Len(set)}

Reversed(seq) == [k \in 1..Len(seq) |-> seq[Len(seq) + 1 - k]]

\* The dag with every set iterated in the opposite order.
ReversedDag(dag) ==
  [targetIdToDependentIds |->
     [k \in DOMAIN dag.targetIdToDependentIds |-> Reversed(dag.targetIdToDependentIds[k])],
   targetIdToName |-> dag.targetIdToName,
   nameToTargetIds |->
     [n \in DOMAIN dag.nameToTargetIds |-> Reversed(dag.nameToTargetIds[n])]]

PermutationsOf(n) == {p \in [1..n -> 1..n] : \A i, j \in 1..n : p[i] = p[j] => i = j}

\* C25: the set of ids returned by computeTransitiveTargets depends only on
\* the set of seed names: permuting or duplicating entries of
\* directPackageNames, or iterating the dependents in another order, yields
\* the same set of ids, and the ids for S1 followed by S2 are the union of
\* the ids for S1 and the ids for S2.
C25_IdsDependOnSeedSet ==
  Done =>
    LET names == directPackageNames
        dag == ClosureDag
    IN  /\ targets = computeTransitiveTargets(names, dag)
        /\ \A p \in PermutationsOf(Len(names)) :
             IdsOf(computeTransitiveTargets(Permute(names, p), dag)) = ReturnedIds
        /\ \A k \in 1..Len(names), at \in 0..Len(names) :
             IdsOf(computeTransitiveTargets(
                     SubSeq(names, 1, at) \o <<names[k]>> \o SubSeq(names, at + 1, Len(names)),
                     dag)) = ReturnedIds
        /\ IdsOf(computeTransitiveTargets(names, ReversedDag(dag))) = ReturnedIds
        /\ \A at \in 0..Len(names) :
             IdsOf(computeTransitiveTargets(SubSeq(names, 1, at), dag))
               \cup IdsOf(computeTransitiveTargets(SubSeq(names, at + 1, Len(names)), dag))
               = ReturnedIds

\* Two different seeds that both resolve have returned three ids or more, and
\* the call with the seeds in the other order visits the ids in another order.
C25_Witness ==
  /\ Done
  /\ Len(directPackageNames) = 2
  /\ directPackageNames[1] # directPackageNames[2]
  /\ UnresolvedNames = {}
  /\ Cardinality(ReturnedIds) >= 3
  /\ computeTransitiveTargets(Reversed(directPackageNames), ClosureDag) # targets


\* part_002:308-348: the targets that the call visits and reports, without
\* the synthetic ones.
ReportedBy(names, dag) ==
  NamedTargets(<<>>,
               Traverse(ResolveNames(names, dag.nameToTargetIds,
                                     [directTargetIds |-> <<>>,
                                      packagesNotInDag |-> <<>>]).directTargetIds,
                        {}, <<>>, dag.targetIdToDependentIds),
               dag.targetIdToName)

\* The hydrated dag of the baseline and all the additional snapshots but
\* the last.
DagBeforeLast ==
  buildHydratedDag(baselineTargets,
                   Prefix(additionalTargets, Len(additionalTargets) - 1))[1]

\* C26: folding one snapshot more never shrinks the affected set of graph
\* targets: every target id that computeTransitiveTargets visits and
\* reports on buildHydratedDag(B, A) for the seeds N is also reported on
\* buildHydratedDag(B, A followed by s) for the same seeds; only synthetic
\* entries for names that s makes resolvable may disappear.
C26_FoldingNeverShrinks ==
  (Done /\ Len(additionalTargets) >= 1) =>
    /\ IdsOf(ReportedBy(directPackageNames, DagBeforeLast)) \subseteq IdsOf(ReportedTargets)
    /\ \A n \in IdsOf(computeTransitiveTargets(directPackageNames, DagBeforeLast)) \ ReturnedIds :
         /\ n \in Range(directPackageNames)
         /\ ~MapHas(DagBeforeLast.nameToTargetIds, n)
         /\ MapHas(ClosureDag.nameToTargetIds, n)

\* What the code does: a target id reported before the last snapshot is
\* reported after it unless its name has become the empty string.
FoldingKeepsTruthyNamed ==
  (Done /\ Len(additionalTargets) >= 1) =>
    /\ \A t \in IdsOf(ReportedBy(directPackageNames, DagBeforeLast)) :
         ~IsFalsy(ClosureDag.targetIdToName[t]) => t \in IdsOf(ReportedTargets)
    /\ \A n \in IdsOf(computeTransitiveTargets(directPackageNames, DagBeforeLast)) \ ReturnedIds :
         \/ /\ n \in Range(directPackageNames)
            /\ ~MapHas(DagBeforeLast.nameToTargetIds, n)
            /\ MapHas(ClosureDag.nameToTargetIds, n)
         \/ /\ MapHas(ClosureDag.targetIdToName, n)
            /\ IsFalsy(ClosureDag.targetIdToName[n])

\* The last snapshot has renamed a target that was reported before it, and
\* the target is reported after it.
FoldingKeptRenamedTarget ==
  /\ Done
  /\ Len(additionalTargets) >= 1
  /\ \E t \in IdsOf(ReportedBy(directPackageNames, DagBeforeLast)) :
       /\ DagBeforeLast.targetIdToName[t] # ClosureDag.targetIdToName[t]
       /\ t \in IdsOf(ReportedTargets)

====
